---- MODULE Spec2Model ----
(***************************************************************************)
(* CarboxySim core: input validation, geometry and equilibrium helpers,    *)
(* the single-pass transfer solver (lumped and segmented counterflow), the *)
(* fixed-duration simulate() and the two-stage CO2 outlet.                 *)
(*                                                                         *)
(* Python floats are modelled as fixed-point integers.  Units:             *)
(*   concentration      1e-4 mmol/L        mole fraction     1e-3          *)
(*   pressure           0.1 kPa            temperature       0.01 degC     *)
(*   liquid flow        1 mL/min           gas flow          0.1 mL/min    *)
(*   lengths            0.1 mm, 1 cm       volumes           1 uL          *)
(*   times              0.1 s              kLa               1e-3 1/s      *)
(*   molar flows        1e-7 mmol/min      permeability      1e-9          *)
(*   exp() and transfer factors            1e-4                            *)
(* Every division rounds to the nearest unit.                              *)
(***************************************************************************)
EXTENDS Integers, Sequences, FiniteSets, TLC

VARIABLES inputs, pc, errors, cstar, steady, outputs, calls, prev, c_in, co2, frames

vars == <<inputs, pc, errors, cstar, steady, outputs, calls, prev, c_in, co2, frames>>

\* ------------------------------------------------------------------------
\* Fixed-point arithmetic
\* ------------------------------------------------------------------------
Abs(x) == IF x < 0 THEN -x ELSE x

Max(a, b) == IF a >= b THEN a ELSE b

Min(a, b) == IF a <= b THEN a ELSE b

\* n / d rounded to the nearest integer (d > 0)
RDiv(n, d) == IF n >= 0 THEN (n + (d \div 2)) \div d ELSE -(((-n) + (d \div 2)) \div d)

\* Optional[float]: <<>> is None, <<v>> is the value v
None == <<>>

Some(v) == <<v>>

IsNone(o) == o = <<>>

Val(o) == o[1]

\* scale of exp() results and of the transfer factors 1 - exp()
ES == 10000

\* scale of mole fractions
YS == 1000

\* round(ES * exp(-i/4)) for i = 0 .. 40
ExpTable == <<10000, 7788, 6065, 4724, 3679, 2865, 2231, 1738, 1353, 1054,
              821, 639, 498, 388, 302, 235, 183, 143, 111, 87,
              67, 52, 41, 32, 25, 19, 15, 12, 9, 7,
              6, 4, 3, 3, 2, 2, 1, 1, 1, 1, 0>>

\* The table entry i, moved the fraction f / 2500 towards entry i + 1
ExpInterpolate(i, f) ==
  IF i >= 40 THEN 0
  ELSE ExpTable[i + 1] - RDiv((ExpTable[i + 1] - ExpTable[i + 2]) * f, 2500)

\* math.exp(-x) for x >= 0 in units of 1e-4: the table above, linearly
\* interpolated; underflows to 0 from x = 10 on.
ExpNeg(x) == ExpInterpolate(x \div 2500, x % 2500)

\* ------------------------------------------------------------------------
\* core/model.py
\* ------------------------------------------------------------------------
Species == {"O2", "N2", "CO2"}

\* Henry-like coefficients in 1e-4 mmol/(L*kPa)
constant_solubility_model(species, temperature_c) ==
  CASE species = "O2" -> 128
    [] species = "N2" -> 61
    [] species = "CO2" -> 307

\* pi in units of 1e-4
PI == 31416

\* ideal gas constant in units of 1e-3 kPa*L/(mol*K)
r_kpa_l_per_mol_k == 8314

\* 273.15 in units of 0.01 K
KelvinOffset == 27315

compute_equilibrium_concentrations(inp) ==
  LET p_frac_o2 == inp.y_o2 * inp.p_total_kpa
      p_frac_n2 == inp.y_n2 * inp.p_total_kpa
      s_o2 == constant_solubility_model("O2", inp.temperature_c)
      s_n2 == constant_solubility_model("N2", inp.temperature_c)
  IN  <<RDiv(s_o2 * p_frac_o2, 10000), RDiv(s_n2 * p_frac_n2, 10000)>>

\* pi * (id/20)^2 * length, in uL
compute_tube_volume_ml(tube_id_mm, tube_length_cm) ==
  RDiv(RDiv(PI * tube_id_mm * tube_id_mm, 1000) * tube_length_cm, 400)

\* A residence time that grows with the flow
residence_time_rising(flow_dml_min, tube_volume_ul) ==
  RDiv(tube_volume_ul * flow_dml_min * 6, 10000)

\* (volume / flow) * 60, in 0.1 s; flow in 0.1 mL/min
compute_residence_time_s(flow_dml_min, tube_volume_ul) ==
  RDiv(tube_volume_ul * 6, flow_dml_min)

compute_annulus_volume_ml(shell_id_mm, tube_od_mm, tube_length_cm) ==
  RDiv(RDiv(PI * ((shell_id_mm * shell_id_mm) - (tube_od_mm * tube_od_mm)), 1000)
         * tube_length_cm, 400)

\* ideal-gas concentration of the carrier gas, in 0.01 mmol/L
gas_concentration_mmol_l(p_total_kpa, temperature_c) ==
  LET temperature_k == temperature_c + KelvinOffset
      rt == RDiv(r_kpa_l_per_mol_k * temperature_k, 10000)
  IN  RDiv(p_total_kpa * 100000, rt)

\* (gas_flow / 1000) * y * gas concentration, in 1e-7 mmol/min
compute_gas_o2_supply_rate_mmol_min(gas_flow_ml_min, y_o2, p_total_kpa, temperature_c) ==
  RDiv(gas_flow_ml_min * y_o2 * gas_concentration_mmol_l(p_total_kpa, temperature_c), 100)

\* The closed form with inlet and equilibrium exchanged
outlet_concentration_swapped(c_in_mmol_l, cstar_mmol_l, kla_s_inv, residence_time_s) ==
  c_in_mmol_l + RDiv((cstar_mmol_l - c_in_mmol_l) * ExpNeg(kla_s_inv * residence_time_s), ES)

\* cstar + (c_in - cstar) * exp(-kla * residence_time)
compute_single_pass_outlet_concentration(c_in_mmol_l, cstar_mmol_l, kla_s_inv, residence_time_s) ==
  cstar_mmol_l + RDiv((c_in_mmol_l - cstar_mmol_l) * ExpNeg(kla_s_inv * residence_time_s), ES)

compute_two_stage_co2_outlet_concentration(c_co2_in, cstar1, cstar2, kla_co2, tau1, tau2) ==
  LET c_after_stage1 == compute_single_pass_outlet_concentration(c_co2_in, cstar1, kla_co2, tau1)
      c_after_stage2 == compute_single_pass_outlet_concentration(c_after_stage1, cstar2, kla_co2, tau2)
  IN  <<c_after_stage1, c_after_stage2>>

\* Result of a call that may raise: [ok |-> TRUE, val |-> v] or [ok |-> FALSE, err |-> message]
Ok(v) == [ok |-> TRUE, val |-> v, err |-> ""]

Raise(msg) == [ok |-> FALSE, val |-> 0, err |-> msg]

perm_of(species, inp) ==
  CASE species = "O2" -> inp.perm_o2_mmol_m_per_m2_s_kpa
    [] species = "N2" -> inp.perm_n2_mmol_m_per_m2_s_kpa
    [] species = "CO2" -> inp.perm_co2_mmol_m_per_m2_s_kpa

\* tube_od_mm_override_mm when it is given, tube_od_mm otherwise
effective_tube_od_mm(inp) ==
  IF ~IsNone(inp.tube_od_mm_override_mm) THEN Val(inp.tube_od_mm_override_mm) ELSE inp.tube_od_mm

\* outer tube area pi * od * length over the lumen volume, in 1/m
area_per_volume(tube_od_mm, inp) ==
  RDiv(RDiv(PI * tube_od_mm * inp.tube_length_cm, 10000) * 1000,
       compute_tube_volume_ml(inp.tube_id_mm, inp.tube_length_cm))

\* (perm / wall_thickness) * (area / volume) / solubility, in 1e-3 1/s;
\* tube_od_mm - tube_id_mm is twice the wall thickness, in 0.1 mm
kla_from_permeability(species, inp, tube_od_mm, perm) ==
  IF tube_od_mm <= inp.tube_id_mm
  THEN Raise("tube_od_mm must be greater than tube_id_mm in permeability mode")
  ELSE IF IsNone(perm)
  THEN Raise("Permeability missing for species")
  ELSE Ok(RDiv(Val(perm) * area_per_volume(tube_od_mm, inp),
               5 * (tube_od_mm - inp.tube_id_mm)
                 * constant_solubility_model(species, inp.temperature_c)))

compute_effective_kla_from_permeability(species, inp) ==
  kla_from_permeability(species, inp, effective_tube_od_mm(inp), perm_of(species, inp))

\* A float of any magnitude, as the decimal m * 10^e (m an integer); the
\* fixed-point concentration x is Dec(x, -4)
Dec(m, e) == [m |-> m, e |-> e]

\* round(100 * log10(k)) for k = 1 .. 99
Log10Table == <<0, 30, 48, 60, 70, 78, 85, 90, 95, 100, 104, 108, 111, 115, 118, 120,
                123, 126, 128, 130, 132, 134, 136, 138, 140, 141, 143, 145, 146, 148,
                149, 151, 152, 153, 154, 156, 157, 158, 159, 160, 161, 162, 163, 164,
                165, 166, 167, 168, 169, 170, 171, 172, 172, 173, 174, 175, 176, 176,
                177, 178, 179, 179, 180, 181, 181, 182, 183, 183, 184, 185, 185, 186,
                186, 187, 188, 188, 189, 189, 190, 190, 191, 191, 192, 192, 193, 193,
                194, 194, 195, 195, 196, 196, 197, 197, 198, 198, 199, 199, 200>>

\* 100 * log10(m) of an integer m >= 1, from its two leading digits
RECURSIVE Log10Int(_)
Log10Int(m) == IF m >= 100 THEN 100 + Log10Int(m \div 10) ELSE Log10Table[m]

\* math.log10 of a positive decimal, in units of 0.01
Log10(d) == 100 * d.e + Log10Int(d.m)

\* The value that replaces a dissolved CO2 of zero or less (model.py line 124)
co2_floor == Dec(1, -12)

\* if c_co2_mmol_l <= 0.0: c_co2_mmol_l = 1e-12 (model.py lines 123-124)
clamp_non_positive(c_co2_mmol_l) == IF c_co2_mmol_l.m <= 0 THEN co2_floor ELSE c_co2_mmol_l

\* compute_bicarbonate_buffer_ph (model.py lines 114-125); pH and pKa in
\* units of 0.01; log10(a / b) is taken as log10(a) - log10(b)
compute_bicarbonate_buffer_ph(hco3_mmol_l, c_co2_mmol_l, pka_app) ==
  IF hco3_mmol_l.m <= 0
  THEN Raise("hco3_mmol_l must be > 0 for bicarbonate pH calculation")
  ELSE Ok(pka_app + Log10(hco3_mmol_l) - Log10(clamp_non_positive(c_co2_mmol_l)))

\* ------------------------------------------------------------------------
\* core/params.py
\* ------------------------------------------------------------------------
\* errors.append(msg) when cond holds
Check(cond, msg) == IF cond THEN <<msg>> ELSE <<>>

\* The checks of params.py lines 50-103, in source order
BasicChecks(inp) ==
     Check(~(0 <= inp.y_o2 /\ inp.y_o2 <= YS), "y_o2 must be between 0 and 1")
  \o Check(~(0 <= inp.y_n2 /\ inp.y_n2 <= YS), "y_n2 must be between 0 and 1")
  \* 1e-9 is below the resolution of a mole fraction
  \o Check(Abs((inp.y_o2 + inp.y_n2) - YS) > 0, "y_o2 + y_n2 must equal 1 within tolerance 1e-9")
  \o Check(inp.p_total_kpa <= 0, "p_total_kpa must be > 0")
  \o Check(inp.volume_l <= 0, "volume_l must be > 0")
  \o Check(inp.flow_ml_min <= 0, "flow_ml_min must be > 0")
  \o Check(inp.tube_id_mm <= 0, "tube_id_mm must be > 0")
  \o Check(inp.tube_od_mm <= inp.tube_id_mm, "tube_od_mm must be greater than tube_id_mm")
  \o Check(inp.shell_id_mm <= inp.tube_od_mm, "shell_id_mm must be greater than tube_od_mm")
  \o Check(inp.tube_length_cm <= 0, "tube_length_cm must be > 0")
  \o Check(inp.gas_flow_ml_min <= 0, "gas_flow_ml_min must be > 0")
  \o Check(~IsNone(inp.total_hold_up_volume_ml) /\ Val(inp.total_hold_up_volume_ml) <= 0,
           "total_hold_up_volume_ml must be > 0 when provided")
  \o Check(inp.t_end_s <= 0, "t_end_s must be > 0")
  \o Check(inp.dt_s <= 0, "dt_s must be > 0")
  \o Check(inp.dt_s > inp.t_end_s, "dt_s must be <= t_end_s")
  \o Check(inp.kla_o2_s_inv < 0, "kla_o2_s_inv must be >= 0")
  \o Check(inp.kla_n2_s_inv < 0, "kla_n2_s_inv must be >= 0")
  \o Check(inp.kla_co2_s_inv < 0, "kla_co2_s_inv must be >= 0")
  \o Check(inp.c_o2_init_mmol_l < 0, "c_o2_init_mmol_l must be >= 0")
  \o Check(inp.c_n2_init_mmol_l < 0, "c_n2_init_mmol_l must be >= 0")
  \o Check(inp.c_co2_init_mmol_l < 0, "c_co2_init_mmol_l must be >= 0")
  \o Check(inp.hco3_mmol_l <= 0, "hco3_mmol_l must be > 0")
  \o Check(~(0 <= inp.ph_gas_co2_percent /\ inp.ph_gas_co2_percent <= 100),
           "ph_gas_co2_percent must be between 0 and 100")
  \o Check(inp.ph_gas_flow_ml_min <= 0, "ph_gas_flow_ml_min must be > 0")
  \o Check(inp.ph_tube_length_cm <= 0, "ph_tube_length_cm must be > 0")
  \o Check(inp.transfer_model \notin {"kla", "permeability"},
           "transfer_model must be either 'kla' or 'permeability'")
  \o Check(inp.co2_transfer_model \notin {"kla", "permeability"},
           "co2_transfer_model must be either 'kla' or 'permeability'")
  \o Check(inp.gas_liquid_model \notin {"lumped", "segmented"},
           "gas_liquid_model must be either 'lumped' or 'segmented'")
  \o Check(inp.gas_liquid_model = "segmented" /\ inp.n_segments < 2,
           "n_segments must be >= 2 when gas_liquid_model='segmented'")

\* The permeability block with its checks chained: a later check runs only
\* when the earlier ones passed
PermeabilityChecksChained(inp) ==
  IF inp.transfer_model # "permeability" THEN <<>>
  ELSE IF ~IsNone(inp.tube_od_mm_override_mm) /\ Val(inp.tube_od_mm_override_mm) <= inp.tube_id_mm
  THEN <<"tube_od_mm_override_mm must be greater than tube_id_mm in permeability mode">>
  ELSE IF IsNone(inp.perm_o2_mmol_m_per_m2_s_kpa)
  THEN <<"perm_o2_mmol_m_per_m2_s_kpa is required for permeability mode">>
  ELSE IF Val(inp.perm_o2_mmol_m_per_m2_s_kpa) < 0
  THEN <<"perm_o2_mmol_m_per_m2_s_kpa must be >= 0">>
  ELSE IF IsNone(inp.perm_n2_mmol_m_per_m2_s_kpa)
  THEN <<"perm_n2_mmol_m_per_m2_s_kpa is required for permeability mode">>
  ELSE Check(Val(inp.perm_n2_mmol_m_per_m2_s_kpa) < 0, "perm_n2_mmol_m_per_m2_s_kpa must be >= 0")

\* The permeability block (params.py lines 112-122)
PermeabilityChecks(inp) ==
  IF inp.transfer_model = "permeability"
  THEN    Check(~IsNone(inp.tube_od_mm_override_mm)
                  /\ Val(inp.tube_od_mm_override_mm) <= inp.tube_id_mm,
                "tube_od_mm_override_mm must be greater than tube_id_mm in permeability mode")
       \o (IF IsNone(inp.perm_o2_mmol_m_per_m2_s_kpa)
           THEN <<"perm_o2_mmol_m_per_m2_s_kpa is required for permeability mode">>
           ELSE Check(Val(inp.perm_o2_mmol_m_per_m2_s_kpa) < 0,
                      "perm_o2_mmol_m_per_m2_s_kpa must be >= 0"))
       \o (IF IsNone(inp.perm_n2_mmol_m_per_m2_s_kpa)
           THEN <<"perm_n2_mmol_m_per_m2_s_kpa is required for permeability mode">>
           ELSE Check(Val(inp.perm_n2_mmol_m_per_m2_s_kpa) < 0,
                      "perm_n2_mmol_m_per_m2_s_kpa must be >= 0"))
  ELSE <<>>

\* The CO2 permeability block (params.py lines 123-127)
Co2PermeabilityChecks(inp) ==
  IF inp.co2_transfer_model = "permeability"
  THEN IF IsNone(inp.perm_co2_mmol_m_per_m2_s_kpa)
       THEN <<"perm_co2_mmol_m_per_m2_s_kpa is required for co2_transfer_model='permeability'">>
       ELSE Check(Val(inp.perm_co2_mmol_m_per_m2_s_kpa) < 0,
                  "perm_co2_mmol_m_per_m2_s_kpa must be >= 0")
  ELSE <<>>

\* The list of error messages validate_inputs collects; it raises
\* ValueError("; ".join(errors)) when the list is not empty.
validate_inputs(inp) ==
  BasicChecks(inp) \o PermeabilityChecks(inp) \o Co2PermeabilityChecks(inp)

\* ------------------------------------------------------------------------
\* core/solver.py
\* ------------------------------------------------------------------------
\* numerator / max(denominator, 1e-15), scaled by YS: a mole fraction.
\* 1e-15 is below the resolution of a molar flow, so a zero denominator
\* (which forces a zero numerator) gives 0.
Fraction(num, den) == IF den <= 0 THEN 0 ELSE RDiv(num * YS, den)

\* max(0.0, min(1.0, y))
Clamp01(y) == Max(0, Min(YS, y))

\* The record of the values the segmented solver derives before its loop
\* (solver.py lines 32-41); total_gas_mmol_min is in 1e-6 mmol/min
SegmentedConstants(inp, c_o2_in_mmol_l, c_n2_in_mmol_l, kla_o2_s_inv, kla_n2_s_inv, total_gas_mmol_min, dt_seg_s) ==
  [n |-> inp.n_segments,
   n_o2_inlet_mmol_min |-> RDiv(total_gas_mmol_min * inp.y_o2, 100),
   n_n2_inlet_mmol_min |-> RDiv(total_gas_mmol_min * inp.y_n2, 100),
   q_liq_l_min |-> inp.flow_ml_min,
   a_o2 |-> ES - ExpNeg(kla_o2_s_inv * dt_seg_s),
   a_n2 |-> ES - ExpNeg(kla_n2_s_inv * dt_seg_s),
   sp_o2 |-> constant_solubility_model("O2", inp.temperature_c) * inp.p_total_kpa,
   sp_n2 |-> constant_solubility_model("N2", inp.temperature_c) * inp.p_total_kpa,
   c_o2_in |-> c_o2_in_mmol_l,
   c_n2_in |-> c_n2_in_mmol_l]

SegmentedSetup(inp, c_o2_in_mmol_l, c_n2_in_mmol_l, kla_o2_s_inv, kla_n2_s_inv, residence_time_s) ==
  SegmentedConstants(inp, c_o2_in_mmol_l, c_n2_in_mmol_l, kla_o2_s_inv, kla_n2_s_inv,
                     inp.gas_flow_ml_min * gas_concentration_mmol_l(inp.p_total_kpa, inp.temperature_c),
                     RDiv(residence_time_s, inp.n_segments))

\* n copies of v
RECURSIVE Repeat(_, _)
Repeat(v, n) == IF n <= 0 THEN <<>> ELSE <<v>> \o Repeat(v, n - 1)

\* The loop variables before the first iteration (solver.py lines 44-50).
\* Sequences are 1-based: position i holds the Python entry i - 1.
SegmentedInit(k) ==
  [iface_o2 |-> Repeat(k.n_o2_inlet_mmol_min, k.n + 1),
   iface_n2 |-> Repeat(k.n_n2_inlet_mmol_min, k.n + 1),
   limited_hit |-> FALSE,
   c_liq_o2 |-> <<k.c_o2_in>> \o Repeat(0, k.n),
   c_liq_n2 |-> <<k.c_n2_in>> \o Repeat(0, k.n),
   iters |-> 0,
   diff |-> 0]

\* The local equilibrium of a species in a segment (solver.py lines 64-69):
\* solubility * pressure * the clamped local mole fraction
LocalEquilibrium(gas_in, gas_other_in, sp) ==
  RDiv(sp * Clamp01(Fraction(gas_in, gas_in + gas_other_in)), 10000)

\* The cap that keeps the uncapped increment of the liquid
CapTransferStale(gas_in, dc, q_liq_l_min) ==
  IF dc * q_liq_l_min > gas_in
  THEN [hit |-> TRUE, tr |-> gas_in, dc |-> dc]
  ELSE [hit |-> FALSE, tr |-> dc * q_liq_l_min, dc |-> dc]

\* The cap of a segment's transfer by the gas that is present (solver.py
\* lines 74-85): dc is the uncapped first-order increment
CapTransfer(gas_in, dc, q_liq_l_min) ==
  IF dc * q_liq_l_min > gas_in
  THEN [hit |-> TRUE, tr |-> gas_in, dc |-> RDiv(gas_in, q_liq_l_min)]
  ELSE [hit |-> FALSE, tr |-> dc * q_liq_l_min, dc |-> dc]

\* One species in one segment (solver.py lines 61-87): the gas entering from
\* the right interface of the previous iterate, the local equilibrium, the
\* first-order increment and the cap.
SegmentTransfer(gas_in, gas_other_in, sp, c_liq, a, q_liq_l_min) ==
  CapTransfer(gas_in,
              RDiv((LocalEquilibrium(gas_in, gas_other_in, sp) - c_liq) * a, ES),
              q_liq_l_min)

\* The sweep state after segment seg, from the state acc before it and the
\* transfers of the two species in the segment
SweepStep(acc, seg, t_o2, t_n2) ==
  [c_liq_o2 |-> Append(acc.c_liq_o2, acc.c_liq_o2[seg + 1] + t_o2.dc),
   c_liq_n2 |-> Append(acc.c_liq_n2, acc.c_liq_n2[seg + 1] + t_n2.dc),
   tr_o2 |-> Append(acc.tr_o2, t_o2.tr),
   tr_n2 |-> Append(acc.tr_n2, t_n2.tr),
   hit |-> acc.hit \/ t_o2.hit \/ t_n2.hit]

\* The liquid sweep of one iteration (solver.py lines 55-87), from segment
\* seg on: acc holds the liquid profile up to boundary seg, the transfers of
\* the segments before seg and whether a cap engaged in them.
RECURSIVE LiquidSweep(_, _, _, _, _)
LiquidSweep(k, prev_iface_o2, prev_iface_n2, seg, acc) ==
  IF seg >= k.n THEN acc
  ELSE LiquidSweep(k, prev_iface_o2, prev_iface_n2, seg + 1,
         SweepStep(acc, seg,
           SegmentTransfer(prev_iface_o2[seg + 2], prev_iface_n2[seg + 2], k.sp_o2,
                           acc.c_liq_o2[seg + 1], k.a_o2, k.q_liq_l_min),
           SegmentTransfer(prev_iface_n2[seg + 2], prev_iface_o2[seg + 2], k.sp_n2,
                           acc.c_liq_n2[seg + 1], k.a_n2, k.q_liq_l_min)))

\* The interface to the left without the floor at 0
GasLeftUnfloored(right, tr_seg) == <<right[1] - tr_seg>> \o right

\* The interface to the left of the interfaces right
GasLeft(right, tr_seg) == <<Max(0, right[1] - tr_seg)>> \o right

\* The gas profile re-derived right to left (solver.py lines 89-93):
\* the interfaces seg .. n
RECURSIVE GasProfile(_, _, _, _)
GasProfile(n, inlet, tr, seg) ==
  IF seg >= n THEN <<inlet>>
  ELSE GasLeft(GasProfile(n, inlet, tr, seg + 1), tr[seg + 1])

\* max(abs(a - b) for a, b in zip(xs, ys))
RECURSIVE MaxAbsDiff(_, _, _)
MaxAbsDiff(xs, ys, i) ==
  IF i > Len(xs) THEN 0 ELSE Max(Abs(xs[i] - ys[i]), MaxAbsDiff(xs, ys, i + 1))

\* The loop variables after a pass, from the sweep and the new gas profiles
IterateState(st, sweep, iface_o2, iface_n2) ==
  [iface_o2 |-> iface_o2,
   iface_n2 |-> iface_n2,
   limited_hit |-> st.limited_hit \/ sweep.hit,
   c_liq_o2 |-> sweep.c_liq_o2,
   c_liq_n2 |-> sweep.c_liq_n2,
   iters |-> st.iters + 1,
   diff |-> Max(MaxAbsDiff(iface_o2, st.iface_o2, 1), MaxAbsDiff(iface_n2, st.iface_n2, 1))]

\* The gas half of a pass (solver.py lines 89-98)
IterateGas(k, st, sweep) ==
  IterateState(st, sweep,
               GasProfile(k.n, k.n_o2_inlet_mmol_min, sweep.tr_o2, 0),
               GasProfile(k.n, k.n_n2_inlet_mmol_min, sweep.tr_n2, 0))

\* One pass of the loop body (solver.py lines 53-98)
SegmentedIterate(k, st) ==
  IterateGas(k, st,
             LiquidSweep(k, st.iface_o2, st.iface_n2, 0,
                         [c_liq_o2 |-> <<k.c_o2_in>>, c_liq_n2 |-> <<k.c_n2_in>>,
                          tr_o2 |-> <<>>, tr_n2 |-> <<>>, hit |-> FALSE]))

\* for _ in range(50)
MaxIterations == 50

\* diff < 1e-9 mmol/min, with diff in 1e-7 mmol/min
Converged(diff) == diff * 100 < 1

\* The loop without its bound: it ends on convergence only
LoopDoneUnbounded(st) == st.iters > 0 /\ Converged(st.diff)

\* The loop has ended: MaxIterations passes are done, or the last pass
\* converged (solver.py lines 52 and 99-100)
LoopDone(st) == st.iters >= MaxIterations \/ (st.iters > 0 /\ Converged(st.diff))

\* The passes up to pass number upto, leaving early on convergence
RECURSIVE SegmentedPasses(_, _, _)
SegmentedPasses(k, st, upto) ==
  IF LoopDone(st) \/ st.iters >= upto THEN st
  ELSE SegmentedPasses(k, SegmentedIterate(k, st), upto)

\* The loop (solver.py lines 52-100): at most MaxIterations passes, leaving
\* early on convergence; evaluated ten passes at a time
RECURSIVE SegmentedLoop(_, _)
SegmentedLoop(k, st) ==
  IF LoopDone(st) THEN st ELSE SegmentedLoop(k, SegmentedPasses(k, st, st.iters + 10))

\* y_o2 of the gas at the interfaces 1 .. n from position i on
RECURSIVE GasFractions(_, _, _)
GasFractions(iface_o2, iface_n2, i) ==
  IF i > Len(iface_o2) THEN <<>>
  ELSE <<Fraction(iface_o2[i], iface_o2[i] + iface_n2[i])>> \o GasFractions(iface_o2, iface_n2, i + 1)

\* What the function returns from the final loop variables (solver.py lines 102-114)
SegmentedResult(k, st) ==
  [o2 |-> st.c_liq_o2[k.n + 1],
   n2 |-> st.c_liq_n2[k.n + 1],
   o2_transfer_limited |-> st.limited_hit,
   extra |-> [gas_out_y_o2 |-> Fraction(st.iface_o2[1], st.iface_o2[1] + st.iface_n2[1]),
              gas_out_y_n2 |-> Fraction(st.iface_n2[1], st.iface_o2[1] + st.iface_n2[1]),
              liq_profile_o2_mmol_l |-> st.c_liq_o2,
              gas_profile_y_o2 |-> GasFractions(st.iface_o2, st.iface_n2, 2)],
   iters |-> st.iters]

\* The loop run from its initial variables, and the result
SegmentedRun(k) == SegmentedResult(k, SegmentedLoop(k, SegmentedInit(k)))

compute_segmented_outlet_concentrations(inp, c_o2_in_mmol_l, c_n2_in_mmol_l, kla_o2_s_inv, kla_n2_s_inv, residence_time_s) ==
  SegmentedRun(SegmentedSetup(inp, c_o2_in_mmol_l, c_n2_in_mmol_l,
                              kla_o2_s_inv, kla_n2_s_inv, residence_time_s))

\* The O2 gas-supply cap with its test inverted
LumpedCapInverted(c_o2_in_mmol_l, closed_o2, closed_n2, liquid_flow_l_min, o2_supply_rate_mmol_min) ==
  IF Max(0, (closed_o2 - c_o2_in_mmol_l) * liquid_flow_l_min) <= o2_supply_rate_mmol_min
  THEN [o2 |-> c_o2_in_mmol_l + RDiv(o2_supply_rate_mmol_min, liquid_flow_l_min),
        n2 |-> closed_n2, o2_transfer_limited |-> TRUE]
  ELSE [o2 |-> closed_o2, n2 |-> closed_n2, o2_transfer_limited |-> FALSE]

\* The O2 gas-supply cap, holding back N2 as well
LumpedCapBothSpecies(c_o2_in_mmol_l, closed_o2, closed_n2, liquid_flow_l_min, o2_supply_rate_mmol_min) ==
  IF Max(0, (closed_o2 - c_o2_in_mmol_l) * liquid_flow_l_min) > o2_supply_rate_mmol_min
  THEN [o2 |-> c_o2_in_mmol_l + RDiv(o2_supply_rate_mmol_min, liquid_flow_l_min),
        n2 |-> c_o2_in_mmol_l, o2_transfer_limited |-> TRUE]
  ELSE [o2 |-> closed_o2, n2 |-> closed_n2, o2_transfer_limited |-> FALSE]

\* The O2 gas-supply cap (solver.py lines 170-177): the O2 the closed form
\* asks for per minute against the O2 the gas brings
LumpedCap(c_o2_in_mmol_l, closed_o2, closed_n2, liquid_flow_l_min, o2_supply_rate_mmol_min) ==
  IF Max(0, (closed_o2 - c_o2_in_mmol_l) * liquid_flow_l_min) > o2_supply_rate_mmol_min
  THEN [o2 |-> c_o2_in_mmol_l + RDiv(o2_supply_rate_mmol_min, liquid_flow_l_min),
        n2 |-> closed_n2, o2_transfer_limited |-> TRUE]
  ELSE [o2 |-> closed_o2, n2 |-> closed_n2, o2_transfer_limited |-> FALSE]

\* The lumped branch of compute_single_pass_steady_outlet (solver.py lines
\* 160-177): closed-form outlets, then the O2 gas-supply cap.
LumpedOutlet(inp, c_o2_in_mmol_l, c_n2_in_mmol_l, cstar_o2, cstar_n2, kla_o2_s_inv, kla_n2_s_inv, residence_time_s, o2_supply_rate_mmol_min) ==
  LumpedCap(c_o2_in_mmol_l,
            compute_single_pass_outlet_concentration(
              c_o2_in_mmol_l, cstar_o2, kla_o2_s_inv, residence_time_s),
            compute_single_pass_outlet_concentration(
              c_n2_in_mmol_l, cstar_n2, kla_n2_s_inv, residence_time_s),
            inp.flow_ml_min, o2_supply_rate_mmol_min)

\* What compute_single_pass_steady_outlet gives its caller:
\* [ok, err, o2, n2, metadata], with ok = FALSE and the exception in err
\* when it raises
Raised(msg) == [ok |-> FALSE, err |-> msg, o2 |-> 0, n2 |-> 0, metadata |-> <<>>]

Returned(steady_out_o2, steady_out_n2, metadata) ==
  [ok |-> TRUE, err |-> "", o2 |-> steady_out_o2, n2 |-> steady_out_n2, metadata |-> metadata]

\* The residence times of liquid and gas (solver.py lines 126-129)
ResidenceTimes(inp, tube_volume_ml, annulus_volume_ml) ==
  [tube_volume_ml |-> tube_volume_ml,
   annulus_volume_ml |-> annulus_volume_ml,
   residence_time_s |-> compute_residence_time_s(10 * inp.flow_ml_min, tube_volume_ml),
   gas_residence_time_s |-> compute_residence_time_s(inp.gas_flow_ml_min, annulus_volume_ml)]

Geometry(inp) ==
  ResidenceTimes(inp,
                 compute_tube_volume_ml(inp.tube_id_mm, inp.tube_length_cm),
                 compute_annulus_volume_ml(inp.shell_id_mm, inp.tube_od_mm, inp.tube_length_cm))

\* The transfer rate the solver uses for a species (solver.py lines 131-138)
EffectiveKla(species, inp) ==
  IF inp.transfer_model = "permeability"
  THEN compute_effective_kla_from_permeability(species, inp)
  ELSE Ok(IF species = "O2" THEN inp.kla_o2_s_inv ELSE inp.kla_n2_s_inv)

\* The metadata dictionary (solver.py lines 179-192)
Metadata(inp, geo, kla_o2_s_inv, kla_n2_s_inv, o2_supply_rate_mmol_min, o2_transfer_limited) ==
  [model |-> IF inp.transfer_model = "permeability"
             THEN "single_pass_tubing_permeability_Henry"
             ELSE "single_pass_tubing_kLa_Henry",
   solver |-> IF inp.gas_liquid_model = "segmented"
              THEN "segmented_gas_liquid" ELSE "analytical_plug_flow",
   tube_volume_ml |-> geo.tube_volume_ml,
   annulus_volume_ml |-> geo.annulus_volume_ml,
   residence_time_s |-> geo.residence_time_s,
   gas_residence_time_s |-> geo.gas_residence_time_s,
   effective_kla_o2_s_inv |-> kla_o2_s_inv,
   effective_kla_n2_s_inv |-> kla_n2_s_inv,
   o2_supply_rate_mmol_min |-> o2_supply_rate_mmol_min,
   o2_transfer_limited |-> o2_transfer_limited,
   gas_liquid_model |-> inp.gas_liquid_model,
   n_segments |-> inp.n_segments]

\* The return value from the outlets of the lumped branch (solver.py lines
\* 179-192 and 199)
SteadyReturn(inp, geo, kla_o2_s_inv, kla_n2_s_inv, o2_supply_rate_mmol_min, out) ==
  Returned(out.o2, out.n2,
           Metadata(inp, geo, kla_o2_s_inv, kla_n2_s_inv, o2_supply_rate_mmol_min,
                    out.o2_transfer_limited))

\* The segmented branch without metadata.update(extra)
SegmentedReturnBare(inp, geo, kla_o2_s_inv, kla_n2_s_inv, o2_supply_rate_mmol_min, seg) ==
  Returned(seg.o2, seg.n2,
           Metadata(inp, geo, kla_o2_s_inv, kla_n2_s_inv, o2_supply_rate_mmol_min,
                    seg.o2_transfer_limited))

\* The segmented branch (solver.py lines 149-159 and 193-197)
SegmentedReturn(inp, geo, kla_o2_s_inv, kla_n2_s_inv, o2_supply_rate_mmol_min, seg) ==
  Returned(seg.o2, seg.n2,
           Metadata(inp, geo, kla_o2_s_inv, kla_n2_s_inv, o2_supply_rate_mmol_min,
                    seg.o2_transfer_limited) @@ seg.extra)

\* The two branches (solver.py lines 148-177).  range(n_segments) is empty
\* for n_segments = 0 and residence_time_s / n_segments raises.
SteadyBranch(inp, c_o2_in_mmol_l, c_n2_in_mmol_l, cs, geo, kla_o2_s_inv, kla_n2_s_inv, o2_supply_rate_mmol_min) ==
  IF inp.gas_liquid_model = "segmented"
  THEN IF inp.n_segments = 0 THEN Raised("ZeroDivisionError")
       ELSE SegmentedReturn(inp, geo, kla_o2_s_inv, kla_n2_s_inv, o2_supply_rate_mmol_min,
                            compute_segmented_outlet_concentrations(
                              inp, c_o2_in_mmol_l, c_n2_in_mmol_l,
                              kla_o2_s_inv, kla_n2_s_inv, geo.residence_time_s))
  ELSE SteadyReturn(inp, geo, kla_o2_s_inv, kla_n2_s_inv, o2_supply_rate_mmol_min,
                    LumpedOutlet(inp, c_o2_in_mmol_l, c_n2_in_mmol_l, cs[1], cs[2],
                                 kla_o2_s_inv, kla_n2_s_inv, geo.residence_time_s,
                                 o2_supply_rate_mmol_min))

\* From the transfer rates on (solver.py lines 131-199): a failing
\* compute_effective_kla_from_permeability raises ValueError, a temperature
\* of 0 K makes the gas concentration divide by zero
SteadyFromRates(inp, c_o2_in_mmol_l, c_n2_in_mmol_l, cs, geo, eff_o2, eff_n2) ==
  IF ~eff_o2.ok THEN Raised(eff_o2.err)
  ELSE IF ~eff_n2.ok THEN Raised(eff_n2.err)
  ELSE IF inp.temperature_c + KelvinOffset = 0 THEN Raised("ZeroDivisionError")
  ELSE SteadyBranch(inp, c_o2_in_mmol_l, c_n2_in_mmol_l, cs, geo, eff_o2.val, eff_n2.val,
                    compute_gas_o2_supply_rate_mmol_min(
                      inp.gas_flow_ml_min, inp.y_o2, inp.p_total_kpa, inp.temperature_c))

\* compute_single_pass_steady_outlet (solver.py lines 117-199).  A zero
\* liquid or gas flow makes compute_residence_time_s divide by zero.
compute_single_pass_steady_outlet(inp, c_o2_in_mmol_l, c_n2_in_mmol_l) ==
  IF inp.flow_ml_min = 0 \/ inp.gas_flow_ml_min = 0
  THEN Raised("ZeroDivisionError")
  ELSE SteadyFromRates(inp, c_o2_in_mmol_l, c_n2_in_mmol_l,
                       compute_equilibrium_concentrations(inp), Geometry(inp),
                       EffectiveKla("O2", inp), EffectiveKla("N2", inp))

\* The delay mask with its test inverted
DelayMaskInverted(time_s, residence_time_s, c_init_mmol_l, steady_out) ==
  IF time_s >= residence_time_s THEN c_init_mmol_l ELSE steady_out

\* The delay mask reaching to twice the residence time
DelayMaskDoubled(time_s, residence_time_s, c_init_mmol_l, steady_out) ==
  IF time_s < 2 * residence_time_s THEN c_init_mmol_l ELSE steady_out

\* The delay mask holding the initial value up to and including the
\* residence time
DelayMaskInclusive(time_s, residence_time_s, c_init_mmol_l, steady_out) ==
  IF time_s <= residence_time_s THEN c_init_mmol_l ELSE steady_out

\* One sample of a series (solver.py lines 217-223): the steady value,
\* except before the residence time, where the initial concentration stays
DelayMask(time_s, residence_time_s, c_init_mmol_l, steady_out) ==
  IF time_s < residence_time_s THEN c_init_mmol_l ELSE steady_out

\* The time grid and the two series simulate fills (solver.py lines 214-223):
\* n_steps samples at k * dt
FillSeries(inp, steady_out_o2, steady_out_n2, residence_time_s) ==
  [time_s |-> [i \in 1..((inp.t_end_s \div inp.dt_s) + 1) |-> (i - 1) * inp.dt_s],
   c_o2_mmol_l |-> [i \in 1..((inp.t_end_s \div inp.dt_s) + 1) |->
                      DelayMask((i - 1) * inp.dt_s, residence_time_s,
                                inp.c_o2_init_mmol_l, steady_out_o2)],
   c_n2_mmol_l |-> [i \in 1..((inp.t_end_s \div inp.dt_s) + 1) |->
                      DelayMask((i - 1) * inp.dt_s, residence_time_s,
                                inp.c_n2_init_mmol_l, steady_out_n2)]]

\* ------------------------------------------------------------------------
\* ui/app.py
\* ------------------------------------------------------------------------
\* kla_co2_eff_s_inv (app.py lines 514-518)
Co2EffectiveKla(inp) ==
  IF inp.co2_transfer_model = "permeability"
  THEN compute_effective_kla_from_permeability("CO2", inp)
  ELSE Ok(inp.kla_co2_s_inv)

\* (tube volume / max(flow, 1e-15)) * 60 for a tube of the given length
\* (app.py lines 520-523), in 0.1 s; the flows of the model are positive
StageTau(inp, tube_length_cm) ==
  compute_residence_time_s(10 * inp.flow_ml_min,
                           compute_tube_volume_ml(inp.tube_id_mm, tube_length_cm))

\* y_co2_stage1 = ph_gas_co2_percent / 100, as a mole fraction
y_co2_stage1(inp) == inp.ph_gas_co2_percent * 10

\* cstar_stage1 = co2_sol * y_co2_stage1 * p_total_kpa (app.py line 525)
cstar_stage1(inp) ==
  RDiv(constant_solubility_model("CO2", inp.temperature_c) * y_co2_stage1(inp) * inp.p_total_kpa,
       10000)

\* The pH stage without its gas-supply cap
PhStageUncapped(inp, c_in_mmol_l, c_after, co2_supply_rate_mmol_min) == c_after

\* The CO2 gas-supply cap of the pH stage (app.py lines 543-550)
PhStageCap(inp, c_in_mmol_l, c_after, co2_supply_rate_mmol_min) ==
  IF Max(0, (c_after - c_in_mmol_l) * inp.flow_ml_min) > co2_supply_rate_mmol_min
  THEN c_in_mmol_l + RDiv(co2_supply_rate_mmol_min, inp.flow_ml_min)
  ELSE c_after

\* _apply_ph_stage (app.py lines 527-551)
apply_ph_stage(inp, kla_co2_eff_s_inv, c_in_mmol_l) ==
  IF ~inp.enable_co2_ph_stage THEN c_in_mmol_l
  ELSE PhStageCap(inp, c_in_mmol_l,
                  compute_two_stage_co2_outlet_concentration(
                    c_in_mmol_l, cstar_stage1(inp), cstar_stage1(inp), kla_co2_eff_s_inv,
                    StageTau(inp, inp.ph_tube_length_cm), 0)[1],
                  compute_gas_o2_supply_rate_mmol_min(
                    inp.ph_gas_flow_ml_min, y_co2_stage1(inp), inp.p_total_kpa, inp.temperature_c))

\* The DO stage leaving the dissolved CO2 as it is
apply_do_stage_skipped(inp, kla_co2_eff_s_inv, c_in_mmol_l) == c_in_mmol_l

\* _apply_do_stage (app.py lines 553-563): the O2 section strips dissolved CO2
apply_do_stage(inp, kla_co2_eff_s_inv, c_in_mmol_l) ==
  compute_two_stage_co2_outlet_concentration(
    c_in_mmol_l, 0, 0, kla_co2_eff_s_inv, 0, StageTau(inp, inp.tube_length_cm))[2]

\* The returned dictionary (app.py lines 574-578)
Co2Result(c_after_ph, c_after_do, c_final) ==
  [ok |-> TRUE, err |-> "",
   co2_after_ph_part_mmol_l |-> c_after_ph,
   co2_after_do_part_mmol_l |-> c_after_do,
   co2_final_outlet_mmol_l |-> c_final]

\* The pH stage after the DO stage (app.py lines 565-568)
ReverseOrder(inp, kla_co2_eff_s_inv, c_after_do) ==
  Co2Result(apply_ph_stage(inp, kla_co2_eff_s_inv, c_after_do), c_after_do,
            apply_ph_stage(inp, kla_co2_eff_s_inv, c_after_do))

\* The DO stage after the pH stage (app.py lines 569-572)
NormalOrder(inp, kla_co2_eff_s_inv, c_after_ph) ==
  Co2Result(c_after_ph, apply_do_stage(inp, kla_co2_eff_s_inv, c_after_ph),
            apply_do_stage(inp, kla_co2_eff_s_inv, c_after_ph))

\* The stages in the selected order (app.py lines 565-578); the supply rate
\* of the pH stage divides by the absolute temperature (model.py line 73)
Co2Stages(inp, c_co2_in_mmol_l, eff) ==
  IF ~eff.ok
  THEN [ok |-> FALSE, err |-> eff.err, co2_after_ph_part_mmol_l |-> 0,
        co2_after_do_part_mmol_l |-> 0, co2_final_outlet_mmol_l |-> 0]
  ELSE IF inp.enable_co2_ph_stage /\ inp.temperature_c + KelvinOffset = 0
  THEN [ok |-> FALSE, err |-> "ZeroDivisionError", co2_after_ph_part_mmol_l |-> 0,
        co2_after_do_part_mmol_l |-> 0, co2_final_outlet_mmol_l |-> 0]
  ELSE IF inp.reverse_ph_do_flow
  THEN ReverseOrder(inp, eff.val, apply_do_stage(inp, eff.val, c_co2_in_mmol_l))
  ELSE NormalOrder(inp, eff.val, apply_ph_stage(inp, eff.val, c_co2_in_mmol_l))

\* _compute_two_stage_co2_outlet (app.py lines 511-578)
compute_two_stage_co2_outlet(inp, c_co2_in_mmol_l) ==
  Co2Stages(inp, c_co2_in_mmol_l, Co2EffectiveKla(inp))

\* ------------------------------------------------------------------------
\* Inputs
\* ------------------------------------------------------------------------
\* The baseline of the repository's tests (tests/test_solver.py
\* _baseline_inputs) with the dataclass defaults, on a short time grid.
BaselineInputs ==
  [y_o2 |-> 210, y_n2 |-> 790, p_total_kpa |-> 1013, temperature_c |-> 2500,
   volume_l |-> 1000, flow_ml_min |-> 10,
   tube_id_mm |-> 32, tube_od_mm |-> 48, shell_id_mm |-> 50, tube_length_cm |-> 160,
   gas_flow_ml_min |-> 20, kla_o2_s_inv |-> 10, kla_n2_s_inv |-> 8,
   c_o2_init_mmol_l |-> 0, c_n2_init_mmol_l |-> 0,
   t_end_s |-> 2000, dt_s |-> 500,
   transfer_model |-> "kla", tube_od_mm_override_mm |-> None,
   perm_o2_mmol_m_per_m2_s_kpa |-> None, perm_n2_mmol_m_per_m2_s_kpa |-> None,
   gas_liquid_model |-> "lumped", n_segments |-> 4,
   total_hold_up_volume_ml |-> None,
   enable_co2_ph_stage |-> FALSE, ph_tube_length_cm |-> 16,
   ph_gas_co2_percent |-> 5, ph_gas_flow_ml_min |-> 200,
   kla_co2_s_inv |-> 54, co2_transfer_model |-> "kla",
   perm_co2_mmol_m_per_m2_s_kpa |-> None,
   c_co2_init_mmol_l |-> 12000, hco3_mmol_l |-> 240000, pka_app |-> 610,
   reverse_ph_do_flow |-> FALSE]

\* Transfer-rate configurations: kLa mode and permeability mode, with a zero
\* rate for either species, both or none
RateConfigs ==
  {[transfer_model |-> "kla", kla_o2 |-> r[1], kla_n2 |-> r[2], perm_o2 |-> None, perm_n2 |-> None]
     : r \in {<<0, 0>>, <<10, 8>>, <<5000, 8>>, <<0, 5000>>, <<10, 5000>>}}
  \cup
  {[transfer_model |-> "permeability", kla_o2 |-> 10, kla_n2 |-> 8,
    perm_o2 |-> Some(r[1]), perm_n2 |-> Some(r[2])]
     : r \in {<<0, 0>>, <<100, 0>>, <<0, 100>>}}

WithRate(inp, r) ==
  [inp EXCEPT !.transfer_model = r.transfer_model,
              !.kla_o2_s_inv = r.kla_o2, !.kla_n2_s_inv = r.kla_n2,
              !.perm_o2_mmol_m_per_m2_s_kpa = r.perm_o2,
              !.perm_n2_mmol_m_per_m2_s_kpa = r.perm_n2]

\* Largest segment count of the segmented inputs
MaxSegments == 4

\* Gas-liquid couplings: lumped or segmented, n_segments 2 or MaxSegments
Couplings ==
  {[gas_liquid_model |-> m, n_segments |-> n] : m \in {"lumped", "segmented"}, n \in {2, MaxSegments}}

WithCoupling(inp, c) ==
  [inp EXCEPT !.gas_liquid_model = c.gas_liquid_model, !.n_segments = c.n_segments]

\* Liquid flows: residence times of 386 s, 77.2 s and 38.6 s in the baseline tube
FlowSet == {2, 10, 20}

\* Gas flows: 0.1 mL/min starves the transfer, 2 mL/min does not
GasFlowSet == {1, 20}

\* Initial (inlet) concentrations of O2 and N2: below and above equilibrium
InitSet == {<<0, 0>>, <<1000, 0>>, <<10000, 8000>>}

\* <<t_end, dt>>: grids that end after, and before, the residence times,
\* and one with samples at the residence times 38.6 s and 77.2 s
GridSet == {<<2000, 500>>, <<950, 600>>, <<600, 200>>, <<772, 386>>}

\* Inputs validate_inputs accepts
ValidInputs ==
  {[WithCoupling(WithRate(BaselineInputs, r), c) EXCEPT
      !.y_o2 = y, !.y_n2 = YS - y, !.flow_ml_min = f, !.gas_flow_ml_min = g,
      !.c_o2_init_mmol_l = ci[1], !.c_n2_init_mmol_l = ci[2],
      !.t_end_s = t[1], !.dt_s = t[2]]
     : r \in RateConfigs, c \in Couplings, y \in {210, 1000}, f \in FlowSet,
       g \in GasFlowSet, ci \in InitSet, t \in GridSet}

\* Ways to depart from the baseline, by number.  1 - 5 and 8 - 9 violate a
\* condition of validate_inputs; 6 and 7 do so in permeability mode only.
Departures == 1..9

Depart(inp, d) ==
  [inp EXCEPT
     !.flow_ml_min = IF 1 \in d THEN 0 ELSE @,
     !.y_n2 = IF 2 \in d THEN 800 ELSE @,
     !.p_total_kpa = IF 3 \in d THEN 0 ELSE @,
     !.dt_s = IF 4 \in d THEN 4000 ELSE @,
     !.transfer_model = IF 5 \in d THEN "permeability" ELSE @,
     !.tube_od_mm_override_mm = IF 6 \in d THEN Some(30) ELSE @,
     !.perm_o2_mmol_m_per_m2_s_kpa = IF 7 \in d THEN Some(-1) ELSE @,
     !.n_segments = IF 8 \in d THEN 1 ELSE @,
     !.gas_liquid_model = IF 8 \in d THEN "segmented" ELSE @,
     !.co2_transfer_model = IF 9 \in d THEN "permeability" ELSE @]

\* The baseline with every combination of departures; most of them
\* validate_inputs rejects, for one reason or for several
DepartedInputs == {Depart(BaselineInputs, d) : d \in SUBSET Departures}

\* ------------------------------------------------------------------------
\* simulate (solver.py lines 202-255), one action per statement
\* ------------------------------------------------------------------------
NoCalls == [validate |-> 0, equilibrium |-> 0, solver |-> 0]

Fresh(inp) ==
  /\ inputs = inp
  /\ pc = "start"
  /\ errors = <<>>
  /\ cstar = None
  /\ steady = None
  /\ outputs = None
  /\ calls = NoCalls
  /\ prev = None
  /\ c_in = <<inp.c_o2_init_mmol_l, inp.c_n2_init_mmol_l>>
  /\ co2 = None
  /\ frames = <<>>

InitSim == \E inp \in ValidInputs \cup DepartedInputs : Fresh(inp)

\* validate_inputs(inputs) with the raise left out
SimValidateUnchecked ==
  /\ pc = "start"
  /\ errors' = validate_inputs(inputs)
  /\ calls' = [calls EXCEPT !.validate = @ + 1]
  /\ pc' = "validated"
  /\ UNCHANGED <<inputs, cstar, steady, outputs, prev, c_in, co2, frames>>

\* validate_inputs(inputs): raises when the collected list is not empty
SimValidate ==
  /\ pc = "start"
  /\ errors' = validate_inputs(inputs)
  /\ calls' = [calls EXCEPT !.validate = @ + 1]
  /\ pc' = IF errors' = <<>> THEN "validated" ELSE "raised"
  /\ UNCHANGED <<inputs, cstar, steady, outputs, prev, c_in, co2, frames>>

\* cstar_o2, cstar_n2 = compute_equilibrium_concentrations(inputs, solubility_model)
SimEquilibrium ==
  /\ pc = "validated"
  /\ cstar' = Some(compute_equilibrium_concentrations(inputs))
  /\ calls' = [calls EXCEPT !.equilibrium = @ + 1]
  /\ pc' = "equilibrium"
  /\ UNCHANGED <<inputs, errors, steady, outputs, prev, c_in, co2, frames>>

\* steady_out_o2, steady_out_n2, steady_meta = compute_single_pass_steady_outlet(...)
SimSteadyOutlet ==
  /\ pc = "equilibrium"
  /\ steady' = Some(compute_single_pass_steady_outlet(
                       inputs, inputs.c_o2_init_mmol_l, inputs.c_n2_init_mmol_l))
  /\ pc' = IF Val(steady').ok THEN "steady" ELSE "raised"
  /\ calls' = [calls EXCEPT !.solver = @ + 1]
  /\ UNCHANGED <<inputs, errors, cstar, outputs, prev, c_in, co2, frames>>

\* The SimulationOutputs simulate returns (solver.py lines 225-255)
SimulationOutputs(inp, series, cs, steady_meta) ==
  [time_s |-> series.time_s,
   c_o2_mmol_l |-> series.c_o2_mmol_l,
   c_n2_mmol_l |-> series.c_n2_mmol_l,
   cstar_o2_mmol_l |-> cs[1],
   cstar_n2_mmol_l |-> cs[2],
   metadata |-> steady_meta @@ [n_steps |-> Len(series.time_s),
                                dt_s |-> inp.dt_s, t_end_s |-> inp.t_end_s]]

\* the time grid, the delay mask and the returned SimulationOutputs
SimFill ==
  /\ pc = "steady"
  /\ outputs' = Some(SimulationOutputs(
                       inputs,
                       FillSeries(inputs, Val(steady).o2, Val(steady).n2,
                                  Val(steady).metadata.residence_time_s),
                       Val(cstar), Val(steady).metadata))
  /\ pc' = "done"
  /\ UNCHANGED <<inputs, errors, cstar, steady, calls, prev, c_in, co2, frames>>

\* The caller's next run, as in the repository's tests: the same inputs with
\* a lower liquid flow, with half the time step, or with the segmented
\* coupling in place of the lumped one.
LowerFlow(inp) == {[inp EXCEPT !.flow_ml_min = f] : f \in {g \in FlowSet : g < inp.flow_ml_min}}

HalfStep(inp) == IF inp.dt_s % 2 = 0 THEN {[inp EXCEPT !.dt_s = inp.dt_s \div 2]} ELSE {}

Segmented(inp) ==
  IF inp.gas_liquid_model = "lumped" THEN {[inp EXCEPT !.gas_liquid_model = "segmented"]} ELSE {}

Variation(inp, v) ==
  CASE v = "flow" -> LowerFlow(inp)
    [] v = "dt" -> HalfStep(inp)
    [] v = "coupling" -> Segmented(inp)

SimAgain ==
  /\ pc = "done"
  /\ prev = None
  /\ \E v \in {"flow", "dt", "coupling"} :
       \E inp \in Variation(inputs, v) :
         /\ prev' = Some([vary |-> v, inputs |-> inputs,
                          steady |-> Val(steady), outputs |-> Val(outputs)])
         /\ inputs' = inp
         /\ c_in' = <<inp.c_o2_init_mmol_l, inp.c_n2_init_mmol_l>>
  /\ pc' = "start"
  /\ errors' = <<>>
  /\ cstar' = None
  /\ steady' = None
  /\ outputs' = None
  /\ calls' = NoCalls
  /\ UNCHANGED <<co2, frames>>

NextSim == SimValidate \/ SimEquilibrium \/ SimSteadyOutlet \/ SimFill \/ SimAgain

SpecSim == InitSim /\ [][NextSim]_vars

\* ------------------------------------------------------------------------
\* The dashboard's two-stage CO2 outlet, called for both stage orders
\* ------------------------------------------------------------------------
\* CO2 gas percentages of the pH stage
PercentSet == {0, 5, 99}

\* kla_co2_s_inv: none, the default, a fast one
KlaCo2Set == {0, 54, 5000}

\* pH-stage gas flows: 0.1 mL/min and 20 mL/min
PhGasFlowSet == {1, 200}

\* Dissolved CO2 at the inlet
Co2InletSet == {0, 1000, 12000}

\* CO2 transfer configurations: kLa mode, and permeability mode with a
\* permeability of 0 and of 200
Co2RateConfigs ==
  {[co2_transfer_model |-> "kla", kla_co2 |-> k, perm_co2 |-> None] : k \in KlaCo2Set}
  \cup {[co2_transfer_model |-> "permeability", kla_co2 |-> 54, perm_co2 |-> Some(p)] : p \in {0, 200}}

\* Inputs validate_inputs accepts, for the two-stage CO2 outlet
Co2Inputs ==
  {[BaselineInputs EXCEPT
      !.enable_co2_ph_stage = e, !.ph_gas_co2_percent = pct,
      !.co2_transfer_model = r.co2_transfer_model, !.kla_co2_s_inv = r.kla_co2,
      !.perm_co2_mmol_m_per_m2_s_kpa = r.perm_co2,
      !.ph_gas_flow_ml_min = g, !.flow_ml_min = f, !.reverse_ph_do_flow = rev]
     : e \in BOOLEAN, pct \in PercentSet, r \in Co2RateConfigs, g \in PhGasFlowSet,
       f \in {2, 10}, rev \in BOOLEAN}

InitCo2 ==
  \E inp \in Co2Inputs, c \in Co2InletSet :
    /\ inputs = inp
    /\ pc = "start"
    /\ errors = <<>>
    /\ cstar = None
    /\ steady = None
    /\ outputs = None
    /\ calls = NoCalls
    /\ prev = None
    /\ c_in = <<c>>
    /\ co2 = None
    /\ frames = <<>>

\* _compute_two_stage_co2_outlet(inputs, c_co2_in_mmol_l)
Co2Outlet ==
  /\ pc = "start"
  /\ co2' = Some(compute_two_stage_co2_outlet(inputs, c_in[1]))
  /\ pc' = "done"
  /\ UNCHANGED <<inputs, errors, cstar, steady, outputs, calls, prev, c_in, frames>>

\* replace(base, reverse_ph_do_flow = not base.reverse_ph_do_flow): the
\* caller's second call, with the same inlet
Co2OtherOrder ==
  /\ pc = "done"
  /\ prev = None
  /\ prev' = Some([inputs |-> inputs, co2 |-> Val(co2)])
  /\ inputs' = [inputs EXCEPT !.reverse_ph_do_flow = ~@]
  /\ co2' = None
  /\ pc' = "start"
  /\ UNCHANGED <<errors, cstar, steady, outputs, calls, c_in, frames>>

NextCo2 == Co2Outlet \/ Co2OtherOrder

SpecCo2 == InitCo2 /\ [][NextCo2]_vars

\* ------------------------------------------------------------------------
\* Calls of the dashboard's helpers.  frames holds one record per call in
\* progress: the function, its arguments, its local variables, its position
\* and its result.  The variables of simulate stay idle.
\* ------------------------------------------------------------------------
Idle ==
  /\ inputs = None
  /\ pc = "idle"
  /\ errors = <<>>
  /\ cstar = None
  /\ steady = None
  /\ outputs = None
  /\ calls = NoCalls
  /\ prev = None
  /\ c_in = <<>>
  /\ co2 = None

IdleUnchanged == UNCHANGED <<inputs, pc, errors, cstar, steady, outputs, calls, prev, c_in, co2>>

\* Bicarbonate concentrations: negative, zero, and positive ones
Hco3Set == {Dec(-1, 0), Dec(0, 0), Dec(5, -1), Dec(24, 0), Dec(240000, -4)}

\* Dissolved CO2: negative, zero, below the floor 1e-12, at it and above it
Co2ValueSet ==
  {Dec(-5, -3), Dec(0, 0), Dec(1, -13), Dec(9, -13), Dec(50, -14),
   Dec(1, -12), Dec(2, -12), Dec(12, -1), Dec(12000, -4)}

PkaSet == {610, 640}

PhFrame(hco3_mmol_l, c_co2_mmol_l, pka_app) ==
  [fn |-> "compute_bicarbonate_buffer_ph", pc |-> "call", result |-> None,
   hco3_mmol_l |-> hco3_mmol_l, c_co2_mmol_l |-> c_co2_mmol_l, pka_app |-> pka_app]

InitPh ==
  /\ Idle
  /\ \E h \in Hco3Set, c \in Co2ValueSet, k \in PkaSet : frames = <<PhFrame(h, c, k)>>

\* compute_bicarbonate_buffer_ph(hco3_mmol_l, c_co2_mmol_l, pka_app)
PhCall ==
  /\ Len(frames) = 1
  /\ frames[1].fn = "compute_bicarbonate_buffer_ph"
  /\ frames[1].pc = "call"
  /\ frames' = <<[frames[1] EXCEPT
                     !.pc = "done",
                     !.result = Some(compute_bicarbonate_buffer_ph(
                                       frames[1].hco3_mmol_l, frames[1].c_co2_mmol_l,
                                       frames[1].pka_app))]>>
  /\ IdleUnchanged

NextPh == PhCall

SpecPh == InitPh /\ [][NextPh]_vars

\* ------------------------------------------------------------------------
\* ui/app.py: the recirculating source vessel.  Times of the vessel loops are
\* in ticks of 1/12000 s, so that t_end_s / max_points is exact.
\* ------------------------------------------------------------------------
\* max_points of the two samplers (app.py lines 588 and 805)
max_points == 1200

\* max_time_s = 8.0 * 3600.0 (app.py line 756), in 0.1 s
max_time_s == 288000

\* The divisor of max_time_s / 4000.0 (app.py line 758)
max_search_steps == 4000

\* Python's round(n / d): to the nearest integer, a tie to the even one
RoundHalfEven(n, d) == IF 2 * (n % d) < d THEN n \div d ELSE IF 2 * (n % d) > d THEN (n \div d) + 1 ELSE (n \div d) + ((n \div d) % 2)

\* (c_o2 / max(do_ref_o2_mmol_l, 1e-15)) * 100.0, in 0.01 %, for a positive
\* reference
do_percent(c_o2, do_ref_o2_mmol_l) == RDiv(c_o2 * 10000, do_ref_o2_mmol_l)

\* transport_delay_s (app.py lines 761-766, 815-820, 597-602), in 0.1 s: the
\* hold-up volume if given, else the tube volume, over the flow
transport_delay_s(inp) ==
  IF ~IsNone(inp.total_hold_up_volume_ml)
  THEN RDiv(Val(inp.total_hold_up_volume_ml) * 6, 10 * inp.flow_ml_min)
  ELSE RDiv(compute_tube_volume_ml(inp.tube_id_mm, inp.tube_length_cm) * 6, 10 * inp.flow_ml_min)

\* delay_steps = max(0, int(round(transport_delay_s / dt_s))) (app.py lines
\* 767, 821, 603), the step in ticks
delay_steps_of(inp, dt_ticks) == Max(0, RoundHalfEven(max_points * transport_delay_s(inp), dt_ticks))

\* c += (q_l_min / vessel_volume_l) * (delayed_out - c) * dt_min (app.py
\* lines 782-786, 846-849, 626-627)
euler_step(c, delayed_out, inp, dt_ticks) == c + RDiv((delayed_out - c) * RDiv(inp.flow_ml_min * dt_ticks, inp.volume_l * 72), ES)

\* A call of one of the functions: its arguments, its position (pc), its
\* local variables (loc) and, once it has returned or raised, its result
CallFrame(fn, inp, args) == [fn |-> fn, pc |-> "call", inputs |-> inp, args |-> args, loc |-> <<>>, result |-> None]

Return(fr, loc, value) == [fr EXCEPT !.pc = "returned", !.loc = loc, !.result = Some(value)]

Raises(fr, loc, err) == [fr EXCEPT !.pc = "raised", !.loc = loc, !.result = Some(err)]

\* The delay line created with delay_steps + 2 entries, one too many
SeededLineLong(c, delay_steps) == Repeat(c, delay_steps + 2)

\* The delay line as created (app.py lines 768-769, 822-823, 604):
\* delay_steps + 1 entries equal to the initial concentration
SeededLine(c, delay_steps) == Repeat(c, delay_steps + 1)

\* ---- _estimate_time_to_target_do_source_vessel (app.py lines 737-793) ----
\* dt_s without the max_time_s / 4000.0 floor
search_dt_s_unfloored(inp) == Min(300, Max(10, RDiv(RDiv(inp.volume_l * 600, inp.flow_ml_min), 10)))

\* dt_s = max(max_time_s / 4000.0, min(30.0, max(1.0, tau_s / 10.0))) with
\* tau_s = (vessel_volume_l / q_l_min) * 60.0 (app.py lines 757-758), in 0.1 s
search_dt_s(inp) == Max(max_time_s \div max_search_steps, Min(300, Max(10, RDiv(RDiv(inp.volume_l * 600, inp.flow_ml_min), 10))))

\* The returned tuple (reached, time_s, do_percent)
SearchResult(reached, time_s, c_o2, args) == [reached |-> reached, time_s |-> time_s, do_percent |-> do_percent(c_o2, args.do_ref_o2_mmol_l)]

\* The locals before the loop (app.py lines 744-769).  born[i] is the step
\* that produced entry i of the delay line (0 for a seed) and taken the step
\* that produced the entry the last step consumed: they record history and
\* are read by no operator of the function.
SearchLocals(inp, target_c_o2, dt_s, delay_steps) ==
  [c_o2 |-> inp.c_o2_init_mmol_l, c_n2 |-> inp.c_n2_init_mmol_l,
   target_c_o2 |-> target_c_o2, dt_s |-> dt_s, n_steps |-> max_time_s \div dt_s,
   reaching_up |-> target_c_o2 > inp.c_o2_init_mmol_l, delay_steps |-> delay_steps,
   out_hist_o2 |-> SeededLine(inp.c_o2_init_mmol_l, delay_steps),
   out_hist_n2 |-> SeededLine(inp.c_n2_init_mmol_l, delay_steps),
   step |-> 0, born |-> SeededLine(0, delay_steps), taken |-> 0]

\* The function without the early return of a target already met
SearchEnterNoShortcut(fr, target_c_o2) ==
  IF fr.inputs.volume_l <= 0 \/ fr.inputs.flow_ml_min <= 0
  THEN Return(fr, <<>>, SearchResult(FALSE, None, fr.inputs.c_o2_init_mmol_l, fr.args))
  ELSE [fr EXCEPT !.pc = "loop",
                  !.loc = SearchLocals(fr.inputs, target_c_o2, search_dt_s(fr.inputs),
                                       delay_steps_of(fr.inputs, max_points * search_dt_s(fr.inputs)))]

\* Up to the loop (app.py lines 744-769): the two early returns, else the
\* locals.  abs(c_o2 - target_c_o2) <= 1e-9 is equality at this resolution.
SearchEnter(fr, target_c_o2) ==
  IF fr.inputs.volume_l <= 0 \/ fr.inputs.flow_ml_min <= 0
  THEN Return(fr, <<>>, SearchResult(FALSE, None, fr.inputs.c_o2_init_mmol_l, fr.args))
  ELSE IF Abs(fr.inputs.c_o2_init_mmol_l - target_c_o2) <= 0
  THEN Return(fr, <<>>, SearchResult(TRUE, Some(0), fr.inputs.c_o2_init_mmol_l, fr.args))
  ELSE [fr EXCEPT !.pc = "loop",
                  !.loc = SearchLocals(fr.inputs, target_c_o2, search_dt_s(fr.inputs),
                                       delay_steps_of(fr.inputs, max_points * search_dt_s(fr.inputs)))]

\* The two tests with the time of the step before
SearchCheckEarly(fr, loc) ==
  IF (loc.reaching_up /\ loc.c_o2 >= loc.target_c_o2) \/ (~loc.reaching_up /\ loc.c_o2 <= loc.target_c_o2)
  THEN Return(fr, loc, SearchResult(TRUE, Some((loc.step - 1) * loc.dt_s), loc.c_o2, fr.args))
  ELSE [fr EXCEPT !.loc = loc]

\* The two tests that end the loop (app.py lines 787-791), t_now_s = step * dt_s
SearchCheck(fr, loc) ==
  IF (loc.reaching_up /\ loc.c_o2 >= loc.target_c_o2) \/ (~loc.reaching_up /\ loc.c_o2 <= loc.target_c_o2)
  THEN Return(fr, loc, SearchResult(TRUE, Some(loc.step * loc.dt_s), loc.c_o2, fr.args))
  ELSE [fr EXCEPT !.loc = loc]

\* append, pop(0) and the Euler update (app.py lines 778-786)
SearchIntegrate(fr, out) ==
  [fr.loc EXCEPT
     !.out_hist_o2 = Tail(Append(@, out.o2)),
     !.out_hist_n2 = Tail(Append(@, out.n2)),
     !.c_o2 = euler_step(@, Head(Append(fr.loc.out_hist_o2, out.o2)), fr.inputs, max_points * fr.loc.dt_s),
     !.c_n2 = euler_step(@, Head(Append(fr.loc.out_hist_n2, out.n2)), fr.inputs, max_points * fr.loc.dt_s),
     !.step = @ + 1,
     !.born = Tail(Append(@, fr.loc.step + 1)),
     !.taken = Head(Append(fr.loc.born, fr.loc.step + 1))]

\* One pass of the loop (app.py lines 771-791); an exception of the solver
\* leaves the function
SearchStep(fr, out) == IF out.ok THEN SearchCheck(fr, SearchIntegrate(fr, out)) ELSE Raises(fr, fr.loc, out.err)

\* After the loop (app.py line 793)
SearchExit(fr) == Return(fr, fr.loc, SearchResult(FALSE, None, fr.loc.c_o2, fr.args))

\* ---- _simulate_source_vessel_do_timeseries (app.py lines 796-860) and
\* ---- _simulate_source_vessel_ph_timeseries (app.py lines 581-643) ----
\* eff_dt_s = max(dt_s, t_end_s / max_points) (app.py lines 806, 589), in ticks
eff_dt_s_of(args) == Max(max_points * args.dt_s, args.t_end_s)

\* n_steps without the first row
n_steps_of_short(args) == (max_points * args.t_end_s) \div eff_dt_s_of(args)

\* n_steps = int(np.floor(t_end_s / eff_dt_s)) + 1 (app.py lines 807, 590)
n_steps_of(args) == ((max_points * args.t_end_s) \div eff_dt_s_of(args)) + 1

\* A row of the DO frame (app.py lines 826-830, 853-857); time_min is
\* time_s / 60.0, the same instant
DoRow(time_s, c_o2, args) == [time_s |-> time_s, source_do2_percent |-> do_percent(c_o2, args.do_ref_o2_mmol_l)]

\* Up to the loop (app.py lines 805-832).  max(inputs.volume_l, 1e-15) and
\* max(inputs.flow_ml_min, 1e-15) are the volume and the flow when positive.
DoSeriesEnter(fr, eff_dt_s, delay_steps) ==
  [fr EXCEPT !.pc = "loop",
             !.loc = [c_o2 |-> fr.inputs.c_o2_init_mmol_l, c_n2 |-> fr.inputs.c_n2_init_mmol_l,
                      eff_dt_s |-> eff_dt_s, n_steps |-> n_steps_of(fr.args),
                      delay_steps |-> delay_steps,
                      out_hist_o2 |-> SeededLine(fr.inputs.c_o2_init_mmol_l, delay_steps),
                      out_hist_n2 |-> SeededLine(fr.inputs.c_n2_init_mmol_l, delay_steps),
                      rows |-> <<DoRow(0, fr.inputs.c_o2_init_mmol_l, fr.args)>>,
                      step |-> 0, born |-> SeededLine(0, delay_steps), taken |-> 0]]

\* The sampler reading the front of its deque after the append
DoSeriesIntegrateAfter(fr, out) ==
  [fr.loc EXCEPT
     !.out_hist_o2 = Tail(Append(@, out.o2)),
     !.out_hist_n2 = Tail(Append(@, out.n2)),
     !.c_o2 = euler_step(@, Head(Tail(Append(fr.loc.out_hist_o2, out.o2))), fr.inputs, fr.loc.eff_dt_s),
     !.c_n2 = euler_step(@, Head(Tail(Append(fr.loc.out_hist_n2, out.n2))), fr.inputs, fr.loc.eff_dt_s),
     !.step = @ + 1,
     !.born = Tail(Append(@, fr.loc.step + 1)),
     !.taken = Head(Tail(Append(fr.loc.born, fr.loc.step + 1)))]

\* out_hist[0], append on the full deque and the Euler update (app.py lines
\* 841-849)
DoSeriesIntegrate(fr, out) ==
  [fr.loc EXCEPT
     !.out_hist_o2 = Tail(Append(@, out.o2)),
     !.out_hist_n2 = Tail(Append(@, out.n2)),
     !.c_o2 = euler_step(@, Head(fr.loc.out_hist_o2), fr.inputs, fr.loc.eff_dt_s),
     !.c_n2 = euler_step(@, Head(fr.loc.out_hist_n2), fr.inputs, fr.loc.eff_dt_s),
     !.step = @ + 1,
     !.born = Tail(Append(@, fr.loc.step + 1)),
     !.taken = Head(fr.loc.born)]

\* rows.append at t_s = time_s[step] (app.py lines 851-858)
DoSeriesAppend(fr, loc) == [fr EXCEPT !.loc = [loc EXCEPT !.rows = Append(@, DoRow(loc.step * loc.eff_dt_s, loc.c_o2, fr.args))]]

\* One pass of the loop (app.py lines 834-858)
DoSeriesStep(fr, out) == IF out.ok THEN DoSeriesAppend(fr, DoSeriesIntegrate(fr, out)) ELSE Raises(fr, fr.loc, out.err)

\* compute_bicarbonate_buffer_ph as the sampler calls it (app.py lines
\* 611-615, 635-639)
source_ph(inp, c_co2) == compute_bicarbonate_buffer_ph(Dec(inp.hco3_mmol_l, -4), Dec(c_co2, -4), inp.pka_app)

\* A row of the CO2/pH frame (app.py lines 607-616, 631-640)
PhRow(time_s, c_co2, ph) == [time_s |-> time_s, source_co2_mmol_l |-> c_co2, source_ph |-> ph.val]

\* Up to the loop (app.py lines 588-618)
PhSeriesEnter(fr, eff_dt_s, delay_steps, ph) ==
  IF ~ph.ok THEN Raises(fr, <<>>, ph.err)
  ELSE [fr EXCEPT !.pc = "loop",
                  !.loc = [c_co2 |-> fr.inputs.c_co2_init_mmol_l,
                           eff_dt_s |-> eff_dt_s, n_steps |-> n_steps_of(fr.args),
                           delay_steps |-> delay_steps,
                           out_hist_co2 |-> SeededLine(fr.inputs.c_co2_init_mmol_l, delay_steps),
                           rows |-> <<PhRow(0, fr.inputs.c_co2_init_mmol_l, ph)>>,
                           step |-> 0, born |-> SeededLine(0, delay_steps), taken |-> 0]]

\* out_hist_co2[0], append and the Euler update (app.py lines 623-627)
PhSeriesIntegrate(fr, out) ==
  [fr.loc EXCEPT
     !.out_hist_co2 = Tail(Append(@, out.co2_final_outlet_mmol_l)),
     !.c_co2 = euler_step(@, Head(fr.loc.out_hist_co2), fr.inputs, fr.loc.eff_dt_s),
     !.step = @ + 1,
     !.born = Tail(Append(@, fr.loc.step + 1)),
     !.taken = Head(fr.loc.born)]

\* rows.append (app.py lines 629-641)
PhSeriesAppend(fr, loc, ph) ==
  IF ~ph.ok THEN Raises(fr, loc, ph.err)
  ELSE [fr EXCEPT !.loc = [loc EXCEPT !.rows = Append(@, PhRow(loc.step * loc.eff_dt_s, loc.c_co2, ph))]]

\* One pass of the loop (app.py lines 620-641)
PhSeriesStep(fr, out) ==
  IF out.ok
  THEN PhSeriesAppend(fr, PhSeriesIntegrate(fr, out),
                      source_ph(fr.inputs, PhSeriesIntegrate(fr, out).c_co2))
  ELSE Raises(fr, fr.loc, out.err)

\* return pd.DataFrame(rows) (app.py lines 860, 643)
SeriesExit(fr) == Return(fr, fr.loc, fr.loc.rows)

\* ---- simulate and compute_single_pass_steady_outlet as calls ----
\* simulate up to the solver call (solver.py lines 207-208): validate_inputs
\* raises, or the equilibrium concentrations are kept
SimulateEnter(fr, errs) ==
  IF errs # <<>> THEN Raises(fr, <<>>, errs)
  ELSE [fr EXCEPT !.pc = "loop",
                  !.loc = [cstar |-> compute_equilibrium_concentrations(fr.inputs),
                           steady |-> None, step |-> 0, n_steps |-> 1]]

\* The solver call of simulate (solver.py lines 209-212)
SimulateStep(fr, out) ==
  IF out.ok THEN [fr EXCEPT !.loc = [fr.loc EXCEPT !.steady = Some(out), !.step = 1]]
  ELSE Raises(fr, fr.loc, out.err)

\* The grid, the mask and the return of simulate (solver.py lines 214-255)
SimulateExit(fr, st) ==
  Return(fr, fr.loc,
         SimulationOutputs(fr.inputs,
                           FillSeries(fr.inputs, st.o2, st.n2, st.metadata.residence_time_s),
                           fr.loc.cstar, st.metadata))

\* compute_single_pass_steady_outlet called on its own (solver.py lines 117-199)
SteadyCall(fr, out) == IF out.ok THEN Return(fr, <<>>, out) ELSE Raises(fr, <<>>, out.err)

\* ---- _compute_segmented_outlet_concentrations as a call, a pass of its
\* ---- loop per step (solver.py lines 21-114) ----
\* Up to the loop (solver.py lines 32-50).  st holds the loop variables
\* iface_*, c_liq_*, limited_hit and diff with the number of passes done,
\* prev the same before the last pass (prev_iface_* in the code) and sweep
\* the transfers tr_* of the last pass.
SegmentedEnter(fr, k) ==
  [fr EXCEPT !.pc = "loop",
             !.loc = [k |-> k, st |-> SegmentedInit(k), prev |-> SegmentedInit(k),
                      sweep |-> [c_liq_o2 |-> <<k.c_o2_in>>, c_liq_n2 |-> <<k.c_n2_in>>,
                                 tr_o2 |-> <<>>, tr_n2 |-> <<>>, hit |-> FALSE]]]

\* One pass (solver.py lines 53-98) from the liquid sweep of the pass
SegmentedStep(fr, sweep) ==
  [fr EXCEPT !.loc = [k |-> fr.loc.k, st |-> IterateGas(fr.loc.k, fr.loc.st, sweep),
                      prev |-> fr.loc.st, sweep |-> sweep]]

\* After the loop (solver.py lines 102-114)
SegmentedExit(fr) == Return(fr, fr.loc, SegmentedResult(fr.loc.k, fr.loc.st))

\* ---- _compute_co2_stage_segment_profiles (app.py lines 646-734), a pass
\* ---- of its loop per step ----
\* The values derived before the loop (app.py lines 653-672);
\* total_gas_mmol_min is in 1e-6 mmol/min.  nseg = max(2, int(n_segments)).
Co2SegmentConstants(inp, c_co2_in_mmol_l, n_segments, kla_co2_eff_s_inv, total_gas_mmol_min) ==
  [n |-> Max(2, n_segments),
   n_co2_inlet_mmol_min |-> RDiv(total_gas_mmol_min * y_co2_stage1(inp), 100),
   n_other_inlet_mmol_min |-> RDiv(total_gas_mmol_min * (YS - y_co2_stage1(inp)), 100),
   q_liq_l_min |-> inp.flow_ml_min,
   a_co2 |-> ES - ExpNeg(kla_co2_eff_s_inv * RDiv(StageTau(inp, inp.ph_tube_length_cm), Max(2, n_segments))),
   sp_co2 |-> constant_solubility_model("CO2", inp.temperature_c) * inp.p_total_kpa,
   c_co2_in |-> c_co2_in_mmol_l]

\* The loop variables before the first pass (app.py lines 675-680)
Co2SegmentedInit(k) ==
  [iface_co2 |-> Repeat(k.n_co2_inlet_mmol_min, k.n + 1),
   iface_other |-> Repeat(k.n_other_inlet_mmol_min, k.n + 1),
   limited_hit |-> FALSE,
   c_liq |-> <<k.c_co2_in>> \o Repeat(0, k.n),
   iters |-> 0,
   diff |-> 0]

\* The cap of a segment's CO2 transfer (app.py lines 694-700)
Co2CapTransfer(gas_co2_in, dc_co2, q_liq_l_min) ==
  IF dc_co2 * q_liq_l_min > gas_co2_in
  THEN [hit |-> TRUE, tr |-> gas_co2_in, dc |-> RDiv(gas_co2_in, q_liq_l_min)]
  ELSE [hit |-> FALSE, tr |-> dc_co2 * q_liq_l_min, dc |-> dc_co2]

\* A segment whose local equilibrium is that of pure CO2, whatever the
\* other gas
Co2SegmentTransferPure(gas_co2_in, gas_other_in, k, c_liq) ==
  Co2CapTransfer(gas_co2_in,
                 RDiv((RDiv(k.sp_co2 * Clamp01(Fraction(gas_co2_in, gas_co2_in)), 10000)
                       - c_liq) * k.a_co2, ES),
                 k.q_liq_l_min)

\* One segment (app.py lines 687-700): the local mole fraction of CO2 in the
\* gas entering from the right, clamped, the local equilibrium, the
\* first-order increment and the cap
Co2SegmentTransfer(gas_co2_in, gas_other_in, k, c_liq) ==
  Co2CapTransfer(gas_co2_in,
                 RDiv((RDiv(k.sp_co2 * Clamp01(Fraction(gas_co2_in, gas_co2_in + gas_other_in)), 10000)
                       - c_liq) * k.a_co2, ES),
                 k.q_liq_l_min)

\* The sweep state after segment seg (app.py lines 702-703)
Co2SweepStep(acc, seg, t) ==
  [c_liq |-> Append(acc.c_liq, acc.c_liq[seg + 1] + t.dc), tr_co2 |-> Append(acc.tr_co2, t.tr), hit |-> acc.hit \/ t.hit]

\* The liquid sweep of a pass from segment seg on (app.py lines 683-703):
\* CO2 from prev_iface_co2, the other gas from iface_other
RECURSIVE Co2Sweep(_, _, _, _, _)
Co2Sweep(k, prev_iface_co2, iface_other, seg, acc) ==
  IF seg >= k.n THEN acc
  ELSE Co2Sweep(k, prev_iface_co2, iface_other, seg + 1,
                Co2SweepStep(acc, seg,
                             Co2SegmentTransfer(prev_iface_co2[seg + 2], iface_other[seg + 2], k,
                                                acc.c_liq[seg + 1])))

\* The loop variables after the gas half of a pass (app.py lines 705-711):
\* the CO2 interfaces right to left, the other gas passed on unchanged, the
\* largest change of a CO2 interface
Co2IterateGas(k, st, sweep, iface_co2) ==
  [iface_co2 |-> iface_co2,
   iface_other |-> Repeat(k.n_other_inlet_mmol_min, k.n + 1),
   limited_hit |-> st.limited_hit \/ sweep.hit,
   c_liq |-> sweep.c_liq,
   iters |-> st.iters + 1,
   diff |-> MaxAbsDiff(iface_co2, st.iface_co2, 1)]

\* The returned dictionary (app.py lines 715-734); ph is the list of the
\* compute_bicarbonate_buffer_ph results of the liquid profile
Co2Profiles(k, st, ph) ==
  [liq_profile_co2_mmol_l |-> st.c_liq,
   gas_profile_cstar_co2_mmol_l |->
     [s \in 1..k.n |->
        RDiv(k.sp_co2 * Fraction(st.iface_co2[s + 1], st.iface_co2[s + 1] + st.iface_other[s + 1]), 10000)],
   liq_profile_ph |-> [s \in 1..(k.n + 1) |-> ph[s].val],
   co2_transfer_limited |-> st.limited_hit,
   iters |-> st.iters]

\* Up to the loop (app.py lines 653-680): compute_effective_kla_from_permeability
\* may raise, a temperature of 0 K divides by zero
Co2ProfilesEnter(fr, eff) ==
  IF ~eff.ok THEN Raises(fr, <<>>, eff.err)
  ELSE IF fr.inputs.temperature_c + KelvinOffset = 0 THEN Raises(fr, <<>>, "ZeroDivisionError")
  ELSE [fr EXCEPT !.pc = "loop",
                  !.loc = [k |-> Co2SegmentConstants(
                                    fr.inputs, fr.args.c_co2_in_mmol_l, fr.args.n_segments, eff.val,
                                    fr.inputs.ph_gas_flow_ml_min
                                      * gas_concentration_mmol_l(fr.inputs.p_total_kpa, fr.inputs.temperature_c)),
                           st |-> <<>>, prev |-> <<>>, sweep |-> <<>>]]

\* The first statement after the constants: the lists (app.py lines 675-680)
Co2ProfilesLists(fr) ==
  IF fr.pc # "loop" THEN fr
  ELSE [fr EXCEPT !.loc = [k |-> fr.loc.k, st |-> Co2SegmentedInit(fr.loc.k),
                           prev |-> Co2SegmentedInit(fr.loc.k),
                           sweep |-> [c_liq |-> <<fr.loc.k.c_co2_in>>, tr_co2 |-> <<>>, hit |-> FALSE]]]

\* One pass (app.py lines 682-711) from the liquid sweep of the pass
Co2ProfilesStep(fr, sweep) ==
  [fr EXCEPT !.loc = [k |-> fr.loc.k,
                      st |-> Co2IterateGas(fr.loc.k, fr.loc.st, sweep,
                                           GasProfile(fr.loc.k.n, fr.loc.k.n_co2_inlet_mmol_min, sweep.tr_co2, 0)),
                      prev |-> fr.loc.st, sweep |-> sweep]]

\* After the loop (app.py lines 715-734): compute_bicarbonate_buffer_ph raises
\* for a bicarbonate concentration that is not positive
Co2ProfilesExit(fr, ph) ==
  IF \E s \in DOMAIN ph : ~ph[s].ok THEN Raises(fr, fr.loc, ph[1].err)
  ELSE Return(fr, fr.loc, Co2Profiles(fr.loc.k, fr.loc.st, ph))

\* ---- The steps of a call, by function ----
\* From the call to the loop, or to an early return
Enter(fr) ==
  CASE fr.fn = "_estimate_time_to_target_do_source_vessel" ->
         SearchEnter(fr, RDiv(fr.args.target_do_percent * fr.args.do_ref_o2_mmol_l, 100))
    [] fr.fn = "_simulate_source_vessel_do_timeseries" ->
         DoSeriesEnter(fr, eff_dt_s_of(fr.args), delay_steps_of(fr.inputs, eff_dt_s_of(fr.args)))
    [] fr.fn = "_simulate_source_vessel_ph_timeseries" ->
         PhSeriesEnter(fr, eff_dt_s_of(fr.args), delay_steps_of(fr.inputs, eff_dt_s_of(fr.args)),
                       source_ph(fr.inputs, fr.inputs.c_co2_init_mmol_l))
    [] fr.fn = "simulate" -> SimulateEnter(fr, validate_inputs(fr.inputs))
    [] fr.fn = "compute_single_pass_steady_outlet" ->
         SteadyCall(fr, compute_single_pass_steady_outlet(fr.inputs, fr.args.c_o2_in_mmol_l, fr.args.c_n2_in_mmol_l))
    [] fr.fn = "_compute_co2_stage_segment_profiles" ->
         Co2ProfilesLists(Co2ProfilesEnter(fr, Co2EffectiveKla(fr.inputs)))
    [] fr.fn = "_compute_segmented_outlet_concentrations" ->
         SegmentedEnter(fr, SegmentedSetup(fr.inputs, fr.args.c_o2_in_mmol_l, fr.args.c_n2_in_mmol_l,
                                           fr.args.kla_o2_s_inv, fr.args.kla_n2_s_inv, fr.args.residence_time_s))

\* The loop has a pass left: range(1, n_steps + 1) in the search (app.py
\* line 771), range(1, n_steps) in the samplers (lines 834, 620)
HasNext(fr) ==
  IF fr.fn \in {"_simulate_source_vessel_do_timeseries", "_simulate_source_vessel_ph_timeseries"}
  THEN fr.loc.step + 1 < fr.loc.n_steps
  ELSE IF fr.fn \in {"_compute_segmented_outlet_concentrations", "_compute_co2_stage_segment_profiles"}
  THEN ~LoopDone(fr.loc.st)
  ELSE fr.loc.step < fr.loc.n_steps

\* One pass of the loop
Step(fr) ==
  CASE fr.fn = "_estimate_time_to_target_do_source_vessel" ->
         SearchStep(fr, compute_single_pass_steady_outlet(fr.inputs, fr.loc.c_o2, fr.loc.c_n2))
    [] fr.fn = "_simulate_source_vessel_do_timeseries" ->
         DoSeriesStep(fr, compute_single_pass_steady_outlet(fr.inputs, fr.loc.c_o2, fr.loc.c_n2))
    [] fr.fn = "_simulate_source_vessel_ph_timeseries" ->
         PhSeriesStep(fr, compute_two_stage_co2_outlet(fr.inputs, fr.loc.c_co2))
    [] fr.fn = "simulate" ->
         SimulateStep(fr, compute_single_pass_steady_outlet(
                            fr.inputs, fr.inputs.c_o2_init_mmol_l, fr.inputs.c_n2_init_mmol_l))
    [] fr.fn = "_compute_co2_stage_segment_profiles" ->
         Co2ProfilesStep(fr, Co2Sweep(fr.loc.k, fr.loc.st.iface_co2, fr.loc.st.iface_other, 0,
                                      [c_liq |-> <<fr.loc.k.c_co2_in>>, tr_co2 |-> <<>>, hit |-> FALSE]))
    [] fr.fn = "_compute_segmented_outlet_concentrations" ->
         SegmentedStep(fr, LiquidSweep(fr.loc.k, fr.loc.st.iface_o2, fr.loc.st.iface_n2, 0,
                                       [c_liq_o2 |-> <<fr.loc.k.c_o2_in>>, c_liq_n2 |-> <<fr.loc.k.c_n2_in>>,
                                        tr_o2 |-> <<>>, tr_n2 |-> <<>>, hit |-> FALSE]))

\* After the loop
Exit(fr) ==
  CASE fr.fn = "_estimate_time_to_target_do_source_vessel" -> SearchExit(fr)
    [] fr.fn = "simulate" -> SimulateExit(fr, Val(fr.loc.steady))
    [] fr.fn = "_compute_segmented_outlet_concentrations" -> SegmentedExit(fr)
    [] fr.fn = "_compute_co2_stage_segment_profiles" ->
         Co2ProfilesExit(fr, [s \in 1..(fr.loc.k.n + 1) |-> source_ph(fr.inputs, fr.loc.st.c_liq[s])])
    [] OTHER -> SeriesExit(fr)

\* A pass of call i that works on the local variables of the first call in
\* progress of the same function, as if they were the module's
StepOfShared(fs, i) ==
  Step(IF fs[1].fn = fs[i].fn /\ fs[1].pc = "loop" THEN [fs[i] EXCEPT !.loc = fs[1].loc] ELSE fs[i])

\* A pass of call i among the calls in progress: it reads and writes the
\* frame of call i only, the functions keep no module-level state and
\* SimulationInputs is a frozen dataclass (params.py line 6)
StepOf(fs, i) == Step(fs[i])

\* ---- Calls of the recirculation functions from the dashboard ----
\* Vessels: no volume, 5 mL, 30 mL and 1 L; flows of 0, 10 and 20 mL/min;
\* the tube volume or a hold-up of 1 mL as transport volume; a vessel that
\* starts without gas and one that starts above equilibrium
VesselInputs ==
  {[BaselineInputs EXCEPT
      !.volume_l = v, !.flow_ml_min = f, !.total_hold_up_volume_ml = h,
      !.c_o2_init_mmol_l = ci[1], !.c_n2_init_mmol_l = ci[2]]
     : v \in {0, 5, 30, 1000}, f \in {0, 10, 20}, h \in {None, Some(1000)},
       ci \in {<<0, 0>>, <<10000, 8000>>}}

\* Targets of 0 %, 50 %, 200 % and 400 % of a reference of 0.25 mmol/L: the
\* two initial concentrations, one between them and the equilibrium, one
\* beyond it
SearchCalls ==
  {CallFrame("_estimate_time_to_target_do_source_vessel", inp,
             [target_do_percent |-> t, do_ref_o2_mmol_l |-> 2500])
     : inp \in VesselInputs, t \in {0, 50, 200, 400}}

\* <<t_end_s, dt_s>> of the samplers: the 8 hours of the dashboard with a
\* step of 1 s, ten minutes with 1 s and with 50 s, 70 s with 30 s
SeriesGrids == {<<288000, 10>>, <<6000, 10>>, <<6000, 500>>, <<700, 300>>}

DoSeriesCalls ==
  {CallFrame("_simulate_source_vessel_do_timeseries", inp,
             [do_ref_o2_mmol_l |-> 2500, t_end_s |-> g[1], dt_s |-> g[2]])
     : inp \in {i \in VesselInputs : i.volume_l = 1000 /\ i.flow_ml_min > 0 /\ i.c_o2_init_mmol_l = 0},
       g \in SeriesGrids}

PhSeriesCalls ==
  {CallFrame("_simulate_source_vessel_ph_timeseries",
             [inp EXCEPT !.enable_co2_ph_stage = e, !.reverse_ph_do_flow = e],
             [t_end_s |-> g[1], dt_s |-> g[2]])
     : inp \in {i \in VesselInputs : i.volume_l = 1000 /\ i.flow_ml_min = 10 /\ i.c_o2_init_mmol_l = 0},
       e \in BOOLEAN, g \in SeriesGrids}

\* One call from the dashboard
InitVessel ==
  /\ Idle
  /\ \E fr \in SearchCalls \cup DoSeriesCalls \cup PhSeriesCalls : frames = <<fr>>

CallEnter ==
  /\ \E i \in DOMAIN frames :
       /\ frames[i].pc = "call"
       /\ frames' = [frames EXCEPT ![i] = Enter(frames[i])]
  /\ IdleUnchanged

LoopStep ==
  /\ \E i \in DOMAIN frames :
       /\ frames[i].pc = "loop"
       /\ HasNext(frames[i])
       /\ frames' = [frames EXCEPT ![i] = StepOf(frames, i)]
  /\ IdleUnchanged

LoopExit ==
  /\ \E i \in DOMAIN frames :
       /\ frames[i].pc = "loop"
       /\ ~HasNext(frames[i])
       /\ frames' = [frames EXCEPT ![i] = Exit(frames[i])]
  /\ IdleUnchanged

NextVessel == CallEnter \/ LoopStep \/ LoopExit

SpecVessel == InitVessel /\ [][NextVessel]_vars

\* ---- A sweep: two calls on separate parameter sets, in any order ----
\* Short runs of the five functions, for two flows
SweepCalls ==
  {CallFrame("_estimate_time_to_target_do_source_vessel", [BaselineInputs EXCEPT !.volume_l = 5, !.flow_ml_min = f],
             [target_do_percent |-> 50, do_ref_o2_mmol_l |-> 2500]) : f \in {10, 20}}
  \cup {CallFrame("_simulate_source_vessel_do_timeseries", [BaselineInputs EXCEPT !.flow_ml_min = f],
                  [do_ref_o2_mmol_l |-> 2500, t_end_s |-> 2000, dt_s |-> 500]) : f \in {10, 20}}
  \cup {CallFrame("_simulate_source_vessel_ph_timeseries", [BaselineInputs EXCEPT !.flow_ml_min = f],
                  [t_end_s |-> 2000, dt_s |-> 500]) : f \in {10, 20}}
  \cup {CallFrame("simulate", [BaselineInputs EXCEPT !.flow_ml_min = f], <<>>) : f \in {0, 10, 20}}
  \cup {CallFrame("compute_single_pass_steady_outlet", [BaselineInputs EXCEPT !.flow_ml_min = f],
                  [c_o2_in_mmol_l |-> 1000, c_n2_in_mmol_l |-> 0]) : f \in {10, 20}}

InitSweep ==
  /\ Idle
  /\ \E a \in SweepCalls, b \in SweepCalls : a.inputs # b.inputs /\ frames = <<a, b>>

SpecSweep == InitSweep /\ [][NextVessel]_vars

\* ---- Calls of the segmented solver ----
\* Segmented inputs: 2 to MaxSegments segments, a gas flow of 0.1 and of
\* 2 mL/min, two liquid flows, a slow and a fast transfer, a liquid that
\* enters without gas, with some O2 and above equilibrium
SegmentedInputs ==
  {[BaselineInputs EXCEPT
      !.gas_liquid_model = "segmented", !.n_segments = n, !.gas_flow_ml_min = g,
      !.flow_ml_min = f, !.kla_o2_s_inv = r[1], !.kla_n2_s_inv = r[2],
      !.c_o2_init_mmol_l = ci[1], !.c_n2_init_mmol_l = ci[2]]
     : n \in 2..MaxSegments, g \in GasFlowSet, f \in {10, 20}, r \in {<<10, 8>>, <<50, 40>>},
       ci \in InitSet}

\* The call compute_single_pass_steady_outlet makes (solver.py lines 149-159)
SegmentedCalls ==
  {CallFrame("_compute_segmented_outlet_concentrations", inp,
             [c_o2_in_mmol_l |-> inp.c_o2_init_mmol_l, c_n2_in_mmol_l |-> inp.c_n2_init_mmol_l,
              kla_o2_s_inv |-> inp.kla_o2_s_inv, kla_n2_s_inv |-> inp.kla_n2_s_inv,
              residence_time_s |-> Geometry(inp).residence_time_s])
     : inp \in SegmentedInputs}

InitSegmented ==
  /\ Idle
  /\ \E fr \in SegmentedCalls : frames = <<fr>>

SpecSegmented == InitSegmented /\ [][NextVessel]_vars

\* ---- Calls of the CO2 profile function ----
\* The pH stage enabled, with a gas of 0, 5 and 100 % CO2 at 0.1 and
\* 2 mL/min, two liquid flows, the default and a tenfold transfer rate, a
\* tube of 16 and of 160 cm, an inlet without CO2, with the default and with
\* more than any equilibrium, and segment counts from 1 (raised to 2 by the
\* function) to MaxSegments
Co2ProfileCalls ==
  {CallFrame("_compute_co2_stage_segment_profiles",
             [BaselineInputs EXCEPT
                !.enable_co2_ph_stage = TRUE, !.ph_gas_co2_percent = y, !.ph_gas_flow_ml_min = g,
                !.flow_ml_min = f, !.kla_co2_s_inv = r, !.ph_tube_length_cm = l],
             [c_co2_in_mmol_l |-> c, n_segments |-> n])
     : y \in {0, 5, 100}, g \in {1, 20}, f \in {10, 20}, r \in {54, 540}, l \in {16, 160},
       c \in {0, 12000, 50000}, n \in {1} \cup 2..MaxSegments}

InitCo2Profiles ==
  /\ Idle
  /\ \E fr \in Co2ProfileCalls : frames = <<fr>>

SpecCo2Profiles == InitCo2Profiles /\ [][NextVessel]_vars

\* ---- The two recirculation functions called on the same inputs ----
\* Vessels of 1 mL and 1 L (the dashboard accepts 0.1 mL and more, app.py
\* lines 904-910), flows of 10 and 20 mL/min, the tube volume or a
\* hold-up of 1 mL as transport volume, a vessel without gas and one above
\* equilibrium
RecircInputs ==
  {[BaselineInputs EXCEPT
      !.volume_l = v, !.flow_ml_min = f, !.total_hold_up_volume_ml = h,
      !.c_o2_init_mmol_l = ci[1], !.c_n2_init_mmol_l = ci[2]]
     : v \in {1, 1000}, f \in {10, 20}, h \in {None, Some(1000)},
       ci \in {<<0, 0>>, <<10000, 8000>>}}

\* Passes of the sampler in a pair
RecircSteps == 5

\* The search (app.py lines 1600-1604) and the sampler (lines 1624-1629) for
\* the same inputs, the sampler with the step of the search and an end time
\* of RecircSteps steps
RecircPairs ==
  {<<CallFrame("_estimate_time_to_target_do_source_vessel", inp,
               [target_do_percent |-> t, do_ref_o2_mmol_l |-> 2500]),
     CallFrame("_simulate_source_vessel_do_timeseries", inp,
               [do_ref_o2_mmol_l |-> 2500, t_end_s |-> RecircSteps * search_dt_s(inp),
                dt_s |-> search_dt_s(inp)])>>
     : inp \in RecircInputs, t \in {50, 200}}

InitRecirc ==
  /\ Idle
  /\ frames \in RecircPairs

SpecRecirc == InitRecirc /\ [][NextVessel]_vars

\* ---- Calls of the five functions on inputs validate_inputs accepts ----
\* The baseline at 25 C and at -273.15 C (params.py lines 45-130 put no
\* condition on temperature_c and the dashboard's field has no minimum,
\* app.py lines 898-903), with and without an outer-diameter override (3.0 mm,
\* below the inner diameter, and 4.8 mm), CO2 transfer by kLa and by
\* permeability, the permeability given or missing, the pH stage on and off
AcceptedInputs ==
  {[BaselineInputs EXCEPT
      !.temperature_c = t, !.tube_od_mm_override_mm = od,
      !.co2_transfer_model = r[1], !.perm_co2_mmol_m_per_m2_s_kpa = r[2],
      !.enable_co2_ph_stage = e, !.volume_l = 5]
     : t \in {2500, -KelvinOffset}, od \in {None, Some(30), Some(48)},
       r \in {<<"kla", None>>, <<"permeability", None>>, <<"permeability", Some(200)>>},
       e \in BOOLEAN}

AcceptedCalls ==
  {CallFrame("_estimate_time_to_target_do_source_vessel", inp,
             [target_do_percent |-> 50, do_ref_o2_mmol_l |-> 2500]) : inp \in AcceptedInputs}
  \cup {CallFrame("_simulate_source_vessel_do_timeseries", inp,
                  [do_ref_o2_mmol_l |-> 2500, t_end_s |-> 2000, dt_s |-> 500]) : inp \in AcceptedInputs}
  \cup {CallFrame("_simulate_source_vessel_ph_timeseries", inp,
                  [t_end_s |-> 2000, dt_s |-> 500]) : inp \in AcceptedInputs}
  \cup {CallFrame("simulate", inp, <<>>) : inp \in AcceptedInputs}
  \cup {CallFrame("compute_single_pass_steady_outlet", inp,
                  [c_o2_in_mmol_l |-> 1000, c_n2_in_mmol_l |-> 0]) : inp \in AcceptedInputs}

InitAccepted ==
  /\ Idle
  /\ \E fr \in AcceptedCalls : frames = <<fr>>

SpecAccepted == InitAccepted /\ [][NextVessel]_vars

\* ------------------------------------------------------------------------
\* Properties
\* ------------------------------------------------------------------------
Out == Val(outputs)

Prev == Val(prev)

Steady == Val(steady)

\* The final sample of a series
Final(series) == series[Len(series)]

\* The time of the final sample of the current run
LastTime == Final(Out.time_s)

ResidenceTime == Out.metadata.residence_time_s

Range(s) == {s[i] : i \in DOMAIN s}

\* x lies in the closed interval between a and b
Between(x, a, b) == Min(a, b) <= x /\ x <= Max(a, b)

\* The effective transfer rate of a species is zero: kla = 0 in kla mode,
\* permeability = 0 in permeability mode
ZeroRate(inp, species) ==
  IF inp.transfer_model = "kla"
  THEN (IF species = "O2" THEN inp.kla_o2_s_inv ELSE inp.kla_n2_s_inv) = 0
  ELSE perm_of(species, inp) = Some(0)

FinalIsSteady ==
  /\ Final(Out.c_o2_mmol_l)
       = compute_single_pass_steady_outlet(inputs, inputs.c_o2_init_mmol_l, inputs.c_n2_init_mmol_l).o2
  /\ Final(Out.c_n2_mmol_l)
       = compute_single_pass_steady_outlet(inputs, inputs.c_o2_init_mmol_l, inputs.c_n2_init_mmol_l).n2

\* C3 as stated: for all valid inputs the steady outlets equal the final
\* samples of simulate's series.
C3_FinalIsSteadyAlways == pc = "done" => FinalIsSteady

\* C3, amended: the steady outlets equal the final samples of simulate's
\* series when the final sample time is not before the residence time.
C3_FinalIsSteady == (pc = "done" /\ LastTime >= ResidenceTime) => FinalIsSteady

\* A run whose final sample lies past the residence time and differs from
\* the initial concentration
C3_Witness ==
  /\ pc = "done"
  /\ LastTime >= ResidenceTime
  /\ Final(Out.c_o2_mmol_l) # inputs.c_o2_init_mmol_l
  /\ Out.c_o2_mmol_l[1] = inputs.c_o2_init_mmol_l

\* The distance of the final sample from equilibrium, per species
FinalDistance(o) ==
  <<Abs(o.cstar_o2_mmol_l - Final(o.c_o2_mmol_l)), Abs(o.cstar_n2_mmol_l - Final(o.c_n2_mmol_l))>>

\* The run with the lower flow (the current one) ends at least as close to
\* equilibrium as the run with the higher flow (the previous one)
LowerFlowCloser ==
  /\ FinalDistance(Out)[1] <= FinalDistance(Prev.outputs)[1]
  /\ FinalDistance(Out)[2] <= FinalDistance(Prev.outputs)[2]

FlowPair == pc = "done" /\ prev # None /\ Prev.vary = "flow"

WithinOnePercent(fine, coarse) ==
  IF fine > 0 THEN Abs(fine - coarse) * 100 < fine ELSE fine = coarse

\* The final samples of the run with the halved time step (the current one)
\* against those of the run with the full time step (the previous one)
HalfStepClose ==
  /\ WithinOnePercent(Final(Out.c_o2_mmol_l), Final(Prev.outputs.c_o2_mmol_l))
  /\ WithinOnePercent(Final(Out.c_n2_mmol_l), Final(Prev.outputs.c_n2_mmol_l))

StepPair == pc = "done" /\ prev # None /\ Prev.vary = "dt"

\* C6 as stated: halving the time step changes the final sampled O2 and N2
\* concentrations by less than 1% of the finer run's values.
C6_HalfStepCloseAlways == StepPair => HalfStepClose

\* C6, amended: halving the time step changes the final sampled O2 and N2
\* concentrations by less than 1% of the finer run's values when the final
\* samples of both runs lie on the same side of the residence time (the
\* coarse one not before it, or the fine one before it).
C6_HalfStepClose ==
  (StepPair /\ (Final(Prev.outputs.time_s) >= ResidenceTime \/ LastTime < ResidenceTime))
    => HalfStepClose

\* A pair of runs whose final samples both lie past the residence time, at
\* different times, with O2 transferred
C6_Witness ==
  /\ StepPair
  /\ Final(Prev.outputs.time_s) >= ResidenceTime
  /\ LastTime > Final(Prev.outputs.time_s)
  /\ Final(Out.c_o2_mmol_l) # inputs.c_o2_init_mmol_l

CouplingPair == pc = "done" /\ prev # None /\ Prev.vary = "coupling"

\* C7: of two runs that differ only in gas_liquid_model, with the O2 supply
\* limiting the lumped transfer, the segmented outlet O2 concentration is at
\* most the lumped one.
C7_SegmentedAtMostLumped ==
  (CouplingPair /\ Prev.steady.metadata.o2_transfer_limited) => Steady.o2 <= Prev.steady.o2

\* The conditions of a final CO2 value that depends on the stage order: the
\* pH stage is enabled, its equilibrium is positive and neither stage's decay
\* factor exp(-kla * tau) is 1
OrderMatters(inp) ==
  /\ inp.enable_co2_ph_stage
  /\ cstar_stage1(inp) > 0
  /\ Co2EffectiveKla(inp).ok
  /\ ExpNeg(Co2EffectiveKla(inp).val * StageTau(inp, inp.ph_tube_length_cm)) < ES
  /\ ExpNeg(Co2EffectiveKla(inp).val * StageTau(inp, inp.tube_length_cm)) < ES

OrderPair == pc = "done" /\ prev # None

\* C8 as stated: for the same inputs and CO2 inlet the final dissolved-CO2
\* value with reverse_ph_do_flow = true differs from the one with
\* reverse_ph_do_flow = false.
C8_OrderChangesFinalAlways ==
  OrderPair => Val(co2).co2_final_outlet_mmol_l # Prev.co2.co2_final_outlet_mmol_l

\* C8, amended: for the same inputs and CO2 inlet the final dissolved-CO2
\* values of the two stage orders differ when the pH stage is enabled, its
\* CO2 equilibrium is positive and both stages transfer (decay factors
\* below 1).
C8_OrderChangesFinal ==
  (OrderPair /\ OrderMatters(inputs))
    => Val(co2).co2_final_outlet_mmol_l # Prev.co2.co2_final_outlet_mmol_l

\* Both orders computed with both stages transferring, the pH stage capped
\* by its gas supply in the normal order
C8_Witness ==
  /\ OrderPair
  /\ OrderMatters(inputs)
  /\ inputs.reverse_ph_do_flow
  /\ Prev.co2.co2_after_ph_part_mmol_l = c_in[1] + RDiv(
       compute_gas_o2_supply_rate_mmol_min(inputs.ph_gas_flow_ml_min, y_co2_stage1(inputs),
                                           inputs.p_total_kpa, inputs.temperature_c),
       inputs.flow_ml_min)
  /\ Val(co2).co2_final_outlet_mmol_l > Prev.co2.co2_final_outlet_mmol_l

\* The message of a configuration condition, when the condition is violated
Violation(violated, msg) == IF violated THEN {msg} ELSE {}

\* Mole fractions outside [0, 1] or not summing to 1
FractionViolations(inp) ==
  Violation(inp.y_o2 < 0 \/ inp.y_o2 > YS, "y_o2 must be between 0 and 1")
  \cup Violation(inp.y_n2 < 0 \/ inp.y_n2 > YS, "y_n2 must be between 0 and 1")
  \cup Violation(inp.y_o2 + inp.y_n2 # YS, "y_o2 + y_n2 must equal 1 within tolerance 1e-9")

\* Non-positive pressure, volumes, flows, lengths, time step or horizon, a
\* time step beyond the horizon, inconsistent tube and shell ordering
GeometryViolations(inp) ==
  Violation(inp.p_total_kpa <= 0, "p_total_kpa must be > 0")
  \cup Violation(inp.volume_l <= 0, "volume_l must be > 0")
  \cup Violation(inp.flow_ml_min <= 0, "flow_ml_min must be > 0")
  \cup Violation(inp.tube_id_mm <= 0, "tube_id_mm must be > 0")
  \cup Violation(inp.tube_od_mm <= inp.tube_id_mm, "tube_od_mm must be greater than tube_id_mm")
  \cup Violation(inp.shell_id_mm <= inp.tube_od_mm, "shell_id_mm must be greater than tube_od_mm")
  \cup Violation(inp.tube_length_cm <= 0, "tube_length_cm must be > 0")
  \cup Violation(inp.gas_flow_ml_min <= 0, "gas_flow_ml_min must be > 0")
  \cup Violation(inp.total_hold_up_volume_ml # None /\ Val(inp.total_hold_up_volume_ml) <= 0,
                 "total_hold_up_volume_ml must be > 0 when provided")
  \cup Violation(inp.t_end_s <= 0, "t_end_s must be > 0")
  \cup Violation(inp.dt_s <= 0, "dt_s must be > 0")
  \cup Violation(inp.dt_s > inp.t_end_s, "dt_s must be <= t_end_s")
  \cup Violation(inp.ph_gas_flow_ml_min <= 0, "ph_gas_flow_ml_min must be > 0")
  \cup Violation(inp.ph_tube_length_cm <= 0, "ph_tube_length_cm must be > 0")

\* Negative transfer coefficients or initial concentrations, non-positive
\* HCO3-, a CO2 gas percentage outside [0, 100]
ChemistryViolations(inp) ==
  Violation(inp.kla_o2_s_inv < 0, "kla_o2_s_inv must be >= 0")
  \cup Violation(inp.kla_n2_s_inv < 0, "kla_n2_s_inv must be >= 0")
  \cup Violation(inp.kla_co2_s_inv < 0, "kla_co2_s_inv must be >= 0")
  \cup Violation(inp.c_o2_init_mmol_l < 0, "c_o2_init_mmol_l must be >= 0")
  \cup Violation(inp.c_n2_init_mmol_l < 0, "c_n2_init_mmol_l must be >= 0")
  \cup Violation(inp.c_co2_init_mmol_l < 0, "c_co2_init_mmol_l must be >= 0")
  \cup Violation(inp.hco3_mmol_l <= 0, "hco3_mmol_l must be > 0")
  \cup Violation(inp.ph_gas_co2_percent < 0 \/ inp.ph_gas_co2_percent > 100,
                 "ph_gas_co2_percent must be between 0 and 100")

\* Invalid model selectors, segmented mode with fewer than 2 segments
SelectorViolations(inp) ==
  Violation(inp.transfer_model # "kla" /\ inp.transfer_model # "permeability",
            "transfer_model must be either 'kla' or 'permeability'")
  \cup Violation(inp.co2_transfer_model # "kla" /\ inp.co2_transfer_model # "permeability",
                 "co2_transfer_model must be either 'kla' or 'permeability'")
  \cup Violation(inp.gas_liquid_model # "lumped" /\ inp.gas_liquid_model # "segmented",
                 "gas_liquid_model must be either 'lumped' or 'segmented'")
  \cup Violation(inp.gas_liquid_model = "segmented" /\ inp.n_segments < 2,
                 "n_segments must be >= 2 when gas_liquid_model='segmented'")

\* A permeability that is required and missing, or given and negative
PermViolations(selected, perm, missing_msg, negative_msg) ==
  Violation(selected /\ perm = None, missing_msg)
  \cup Violation(selected /\ perm # None /\ Val(perm) < 0, negative_msg)

\* Permeability mode: an outer-diameter override not above the inner
\* diameter, missing or negative permeabilities
PermeabilityViolations(inp) ==
  Violation(inp.transfer_model = "permeability" /\ inp.tube_od_mm_override_mm # None
              /\ Val(inp.tube_od_mm_override_mm) <= inp.tube_id_mm,
            "tube_od_mm_override_mm must be greater than tube_id_mm in permeability mode")
  \cup PermViolations(inp.transfer_model = "permeability", inp.perm_o2_mmol_m_per_m2_s_kpa,
                      "perm_o2_mmol_m_per_m2_s_kpa is required for permeability mode",
                      "perm_o2_mmol_m_per_m2_s_kpa must be >= 0")
  \cup PermViolations(inp.transfer_model = "permeability", inp.perm_n2_mmol_m_per_m2_s_kpa,
                      "perm_n2_mmol_m_per_m2_s_kpa is required for permeability mode",
                      "perm_n2_mmol_m_per_m2_s_kpa must be >= 0")
  \cup PermViolations(inp.co2_transfer_model = "permeability", inp.perm_co2_mmol_m_per_m2_s_kpa,
                      "perm_co2_mmol_m_per_m2_s_kpa is required for co2_transfer_model='permeability'",
                      "perm_co2_mmol_m_per_m2_s_kpa must be >= 0")

\* The messages of all the configuration conditions an input violates
ViolatedConditions(inp) ==
  FractionViolations(inp) \cup GeometryViolations(inp) \cup ChemistryViolations(inp)
    \cup SelectorViolations(inp) \cup PermeabilityViolations(inp)

\* C9: validate_inputs raises nothing when no configuration condition is
\* violated, and otherwise raises one error whose message holds the message
\* of every violated condition, each once.
C9_AllViolationsReported ==
  calls.validate > 0 =>
    /\ Range(errors) = ViolatedConditions(inputs)
    /\ Len(errors) = Cardinality(ViolatedConditions(inputs))
    /\ (pc = "validated") => (ViolatedConditions(inputs) = {})
    /\ (ViolatedConditions(inputs) # {}) => (pc = "raised")

\* A rejected input in permeability mode whose report holds four or more
\* messages, that of the override and those of the missing permeabilities
\* among them
C9_Witness ==
  /\ pc = "raised"
  /\ Len(errors) >= 4
  /\ "tube_od_mm_override_mm must be greater than tube_id_mm in permeability mode" \in Range(errors)
  /\ "perm_n2_mmol_m_per_m2_s_kpa is required for permeability mode" \in Range(errors)
  /\ "flow_ml_min must be > 0" \in Range(errors)

\* C10: simulate calls validate_inputs before any equilibrium or solver
\* computation, and for an input validate_inputs rejects it raises that
\* error: no equilibrium, no solver call, no SimulationOutputs.
C10_ValidationBlocks ==
  /\ (calls.equilibrium > 0 \/ calls.solver > 0) => (calls.validate = 1 /\ errors = <<>>)
  /\ (pc # "start" /\ validate_inputs(inputs) # <<>>) =>
       /\ pc = "raised"
       /\ errors = validate_inputs(inputs)
       /\ calls = [validate |-> 1, equilibrium |-> 0, solver |-> 0]
       /\ cstar = None
       /\ steady = None
       /\ outputs = None

\* A rejected input after simulate raised the validation error
C10_Witness ==
  /\ pc = "raised"
  /\ errors # <<>>
  /\ calls.validate = 1
  /\ calls.solver = 0
  /\ outputs = None

\* The closed-form outlet of a species for the inlet of the current call,
\* from the rates and the residence time the solver reports
ClosedForm(species) ==
  IF species = "O2"
  THEN compute_single_pass_outlet_concentration(
         c_in[1], Val(cstar)[1], Steady.metadata.effective_kla_o2_s_inv,
         Steady.metadata.residence_time_s)
  ELSE compute_single_pass_outlet_concentration(
         c_in[2], Val(cstar)[2], Steady.metadata.effective_kla_n2_s_inv,
         Steady.metadata.residence_time_s)

\* The rate the closed-form O2 outlet requires exceeds the O2 supply of the gas
SupplyExceeded ==
  (ClosedForm("O2") - c_in[1]) * inputs.flow_ml_min > Steady.metadata.o2_supply_rate_mmol_min

Samples == Len(Out.time_s)

\* A series is the step function of its initial and steady value on the grid
StepFunction(series, c_init_mmol_l, steady_out) ==
  /\ Len(series) = Samples
  /\ \A i \in 1..Samples :
       series[i] = IF Out.time_s[i] < ResidenceTime THEN c_init_mmol_l ELSE steady_out
  /\ \A i, j \in 1..Samples :
       (i < j /\ series[i] = steady_out /\ steady_out # c_init_mmol_l) => series[j] # c_init_mmol_l

\* C16: simulate returns floor(t_end / dt) + 1 samples at the times k * dt;
\* every sample before the residence time is the initial concentration,
\* every other sample the steady single-pass outlet, and no sample after a
\* steady one is the initial concentration again.
C16_StepFunction ==
  pc = "done" =>
    /\ Samples = (inputs.t_end_s \div inputs.dt_s) + 1
    /\ \A i \in 1..Samples : Out.time_s[i] = (i - 1) * inputs.dt_s
    /\ StepFunction(Out.c_o2_mmol_l, inputs.c_o2_init_mmol_l, Steady.o2)
    /\ StepFunction(Out.c_n2_mmol_l, inputs.c_n2_init_mmol_l, Steady.n2)

\* A run with a sample at the residence time itself: the sample before it is
\* the initial concentration, the sample at it the steady outlet
C16_Witness ==
  /\ pc = "done"
  /\ Samples = 3
  /\ Out.time_s[3] = ResidenceTime
  /\ Out.c_o2_mmol_l[2] = inputs.c_o2_init_mmol_l
  /\ Out.c_o2_mmol_l[3] = Steady.o2
  /\ Steady.o2 # inputs.c_o2_init_mmol_l

\* 10^n for n >= 0
RECURSIVE Pow10(_)
Pow10(n) == IF n = 0 THEN 1 ELSE 10 * Pow10(n - 1)

\* A decimal is below the floor 1e-12
BelowFloor(d) ==
  \/ d.m <= 0
  \/ d.e < -12 /\ (d.e < -21 \/ d.m < Pow10(-12 - d.e))

\* The dissolved CO2 with every value below 1e-12 replaced by 1e-12
ClampedToFloor(d) == IF BelowFloor(d) THEN Dec(1, -12) ELSE d

\* A finished call of compute_bicarbonate_buffer_ph
PhDone == Len(frames) = 1 /\ frames[1].fn = "compute_bicarbonate_buffer_ph" /\ frames[1].pc = "done"

\* C15: compute_bicarbonate_buffer_ph raises whenever HCO3- <= 0, and
\* otherwise returns pKa_app + log10(HCO3- / c) with every dissolved-CO2
\* value below 1e-12 (zero, negative, or positive and smaller) taken as 1e-12.
C15_FloorBelowAll ==
  PhDone =>
    IF frames[1].hco3_mmol_l.m <= 0
    THEN ~Val(frames[1].result).ok
    ELSE Val(frames[1].result)
           = Ok(frames[1].pka_app + Log10(frames[1].hco3_mmol_l)
                  - Log10(ClampedToFloor(frames[1].c_co2_mmol_l)))

\* ------------------------------------------------------------------------
\* Properties of the recirculating vessel
\* ------------------------------------------------------------------------
\* The call the dashboard made
TheCall == frames[1]

IsSearch == Len(frames) = 1 /\ TheCall.fn = "_estimate_time_to_target_do_source_vessel"

\* target_c_o2 of the call
Target == RDiv(TheCall.args.target_do_percent * TheCall.args.do_ref_o2_mmol_l, 100)

NoFlowOrVolume == TheCall.inputs.volume_l <= 0 \/ TheCall.inputs.flow_ml_min <= 0

TargetMet == TheCall.inputs.c_o2_init_mmol_l = Target

\* The call has returned the given pair and never entered its loop
ReturnedAtOnce(reached, time_s) ==
  /\ TheCall.pc = "returned"
  /\ TheCall.loc = <<>>
  /\ Val(TheCall.result).reached = reached
  /\ Val(TheCall.result).time_s = time_s

\* C11 as stated: the search returns (false, null) without an integration
\* step whenever the volume or the flow is not positive, and (true, 0)
\* without an integration step whenever the initial O2 concentration is the
\* target.
C11_EarlyReturnsAsStated ==
  (IsSearch /\ TheCall.pc # "call") =>
    /\ NoFlowOrVolume => ReturnedAtOnce(FALSE, None)
    /\ TargetMet => ReturnedAtOnce(TRUE, Some(0))

\* C11: the search returns (false, null) without an integration step
\* whenever the volume or the flow is not positive; with a positive volume
\* and flow it returns (true, 0) without an integration step whenever the
\* initial O2 concentration is the target.
C11_EarlyReturns ==
  (IsSearch /\ TheCall.pc # "call") =>
    /\ NoFlowOrVolume => ReturnedAtOnce(FALSE, None)
    /\ (~NoFlowOrVolume /\ TargetMet) => ReturnedAtOnce(TRUE, Some(0))

\* A vessel with a volume and a flow that starts at its target: the search
\* has returned (true, 0)
C11_Witness ==
  /\ IsSearch
  /\ ~NoFlowOrVolume
  /\ TargetMet
  /\ TheCall.inputs.c_o2_init_mmol_l > 0
  /\ ReturnedAtOnce(TRUE, Some(0))

\* The vessel O2 concentration c is on the far side of the target, seen from
\* the initial concentration
HasCrossed(c) ==
  IF Target > TheCall.inputs.c_o2_init_mmol_l THEN c >= Target ELSE c <= Target

\* The search went through its loop
Searched == IsSearch /\ TheCall.pc # "call" /\ TheCall.loc # <<>>

\* C12: the search returns reached = true with the time k * dt of the first
\* integration step, within the 8-hour cap, after which the vessel O2
\* concentration has crossed the target in the direction of the initial
\* offset: while it goes on no completed step has crossed; when it returns
\* true the last step has crossed and the time is that step's; when it
\* returns false it made all the steps of the cap, none crossed, and the
\* time is null.
C12_FirstCrossing ==
  Searched =>
    /\ TheCall.pc \in {"loop", "returned"}
    /\ TheCall.loc.step <= TheCall.loc.n_steps
    /\ TheCall.loc.n_steps * TheCall.loc.dt_s <= max_time_s
    /\ (TheCall.pc = "loop" /\ TheCall.loc.step >= 1) => ~HasCrossed(TheCall.loc.c_o2)
    /\ (TheCall.pc = "returned" /\ Val(TheCall.result).reached) =>
         /\ TheCall.loc.step >= 1
         /\ HasCrossed(TheCall.loc.c_o2)
         /\ Val(TheCall.result).time_s = Some(TheCall.loc.step * TheCall.loc.dt_s)
    /\ (TheCall.pc = "returned" /\ ~Val(TheCall.result).reached) =>
         /\ TheCall.loc.step = TheCall.loc.n_steps
         /\ ~HasCrossed(TheCall.loc.c_o2)
         /\ Val(TheCall.result).time_s = None

\* A vessel above its target came down to it after several steps
C12_Witness ==
  /\ Searched
  /\ TheCall.pc = "returned"
  /\ Val(TheCall.result).reached
  /\ Target < TheCall.inputs.c_o2_init_mmol_l
  /\ TheCall.loc.step > 5
  /\ TheCall.loc.delay_steps > 0

\* A vessel that never got to its target within the 8 hours
C12_WitnessCap ==
  /\ Searched
  /\ TheCall.pc = "returned"
  /\ ~Val(TheCall.result).reached
  /\ TheCall.loc.step = max_search_steps

\* A vessel function has made at least one pass of its loop
Stepped == Len(frames) = 1 /\ TheCall.pc \in {"loop", "returned"} /\ TheCall.loc # <<>> /\ TheCall.loc.step >= 1

\* What the loops do: the value consumed at a step is the outlet computed
\* delay_steps + 1 steps before, or a seed
ConsumedOneStepLater == Stepped => TheCall.loc.taken = Max(0, TheCall.loc.step - TheCall.loc.delay_steps - 1)

\* C17: in the search and in the two samplers the value consumed at a step
\* is the outlet computed delay_steps steps before (the outlet of step k is
\* consumed at step k + delay_steps), and the seeded initial concentration
\* as long as no computed outlet is due.
C17_ConsumedAfterDelaySteps == Stepped => TheCall.loc.taken = Max(0, TheCall.loc.step - TheCall.loc.delay_steps)


IsPhSeries(fr) == fr.fn = "_simulate_source_vessel_ph_timeseries"

\* The delay lines of a vessel function, the concentrations they are seeded
\* with, and the outlets the solver computes from the vessel concentrations
Lines(fr) == IF IsPhSeries(fr) THEN <<fr.loc.out_hist_co2>> ELSE <<fr.loc.out_hist_o2, fr.loc.out_hist_n2>>

Seeds(fr) == IF IsPhSeries(fr) THEN <<fr.inputs.c_co2_init_mmol_l>> ELSE <<fr.inputs.c_o2_init_mmol_l, fr.inputs.c_n2_init_mmol_l>>

Outlets(fr) ==
  IF IsPhSeries(fr) THEN <<compute_two_stage_co2_outlet(fr.inputs, fr.loc.c_co2).co2_final_outlet_mmol_l>>
  ELSE <<compute_single_pass_steady_outlet(fr.inputs, fr.loc.c_o2, fr.loc.c_n2).o2,
         compute_single_pass_steady_outlet(fr.inputs, fr.loc.c_o2, fr.loc.c_n2).n2>>

\* The steps that produced the entries of a line of delay_steps + 1 entries
\* after the given step, the oldest first; 0 stands for a seed
LastSteps(step, delay_steps) == [i \in 1..(delay_steps + 1) |-> Max(0, step - (delay_steps + 1 - i))]

\* C18: every delay line is created with delay_steps + 1 entries equal to
\* the initial concentration; every pass of the loop pushes the outlet it
\* computed and removes the oldest entry, so that the line again holds
\* delay_steps + 1 entries: those of the last delay_steps + 1 steps, in the
\* order of their production, after the seeds not yet removed.
C18_DelayLine ==
  [][\A i \in DOMAIN frames :
       /\ (frames[i].pc = "call" /\ frames'[i].pc = "loop") =>
            \A l \in DOMAIN Lines(frames'[i]) :
              /\ Len(Lines(frames'[i])[l]) = frames'[i].loc.delay_steps + 1
              /\ \A e \in DOMAIN Lines(frames'[i])[l] : Lines(frames'[i])[l][e] = Seeds(frames'[i])[l]
       /\ (frames[i].pc = "loop" /\ frames'[i].pc \in {"loop", "returned"} /\ frames'[i].loc.step = frames[i].loc.step + 1) =>
            /\ \A l \in DOMAIN Lines(frames'[i]) :
                 /\ Len(Lines(frames'[i])[l]) = frames'[i].loc.delay_steps + 1
                 /\ Lines(frames'[i])[l] = Tail(Lines(frames[i])[l]) \o <<Outlets(frames[i])[l]>>
            /\ frames'[i].loc.born = LastSteps(frames'[i].loc.step, frames'[i].loc.delay_steps)]_vars

\* A line of four entries that holds the outlets of the last four steps and
\* no seed any more
C18_Witness ==
  /\ Stepped
  /\ TheCall.loc.delay_steps = 3
  /\ TheCall.loc.step >= 6
  /\ Len(Lines(TheCall)[1]) = 4
  /\ TheCall.loc.born = <<TheCall.loc.step - 3, TheCall.loc.step - 2, TheCall.loc.step - 1, TheCall.loc.step>>
  /\ Lines(TheCall)[1][1] # Lines(TheCall)[1][4]


\* tau = V / Q of the call, in 0.1 s
Tau == RDiv(TheCall.inputs.volume_l * 600, TheCall.inputs.flow_ml_min)

\* The search chose its step
StepChosen == IsSearch /\ TheCall.pc # "call" /\ TheCall.loc # <<>>

\* C19 as stated: the step of the search is tau / 10 clamped to
\* [1 s, 30 s]; for a small tau it is tau / 10 or 1 s, never larger.
C19_StepClampedAsStated == StepChosen => TheCall.loc.dt_s = Min(300, Max(10, RDiv(Tau, 10)))

\* C19: the step of the search is tau / 10 clamped to [7.2 s, 30 s], 7.2 s
\* being the 8 hours of the cap over 4000 steps; for a tau below 72 s the
\* step is 7.2 s.
C19_StepClamped ==
  StepChosen =>
    /\ TheCall.loc.dt_s = Min(300, Max(72, RDiv(Tau, 10)))
    /\ Tau < 720 => TheCall.loc.dt_s = 72
    /\ TheCall.loc.n_steps <= max_search_steps

\* A vessel of 5 mL at 20 mL/min, tau = 15 s: the search steps by 7.2 s
C19_Witness ==
  /\ StepChosen
  /\ Tau = 150
  /\ TheCall.loc.dt_s = 72
  /\ TheCall.loc.step >= 1


IsSeries == Len(frames) = 1 /\ TheCall.fn \in {"_simulate_source_vessel_do_timeseries", "_simulate_source_vessel_ph_timeseries"}

\* The horizon and the effective step of the call, in ticks
Horizon == max_points * TheCall.args.t_end_s

EffectiveDt == Max(max_points * TheCall.args.dt_s, TheCall.args.t_end_s)

\* The first row holds the initial vessel concentration
FirstRowInitial(row) ==
  IF IsPhSeries(TheCall) THEN row.source_co2_mmol_l = TheCall.inputs.c_co2_init_mmol_l
  ELSE row.source_do2_percent = RDiv(TheCall.inputs.c_o2_init_mmol_l * 10000, TheCall.args.do_ref_o2_mmol_l)

\* C20: the DO sampler and the CO2/pH sampler integrate with the effective
\* step max(dt, horizon / 1200): each pass adds one row, and the frame
\* returned has floor(horizon / effective dt) + 1 rows, at most 1201, row k
\* at the time k * effective dt, row 0 with the initial vessel
\* concentration.
C20_SamplerRows ==
  (IsSeries /\ TheCall.pc # "call") =>
    /\ TheCall.pc \in {"loop", "returned"}
    /\ TheCall.loc.eff_dt_s = EffectiveDt
    /\ Len(TheCall.loc.rows) = TheCall.loc.step + 1
    /\ \A k \in DOMAIN TheCall.loc.rows : TheCall.loc.rows[k].time_s = (k - 1) * EffectiveDt
    /\ FirstRowInitial(TheCall.loc.rows[1])
    /\ TheCall.pc = "returned" =>
         /\ Val(TheCall.result) = TheCall.loc.rows
         /\ Len(Val(TheCall.result)) = (Horizon \div EffectiveDt) + 1
         /\ Len(Val(TheCall.result)) <= max_points + 1

\* Eight hours asked for with a step of 1 s: the CO2/pH sampler has
\* returned 1201 rows, 24 s apart, the last at the horizon
C20_Witness ==
  /\ IsSeries
  /\ IsPhSeries(TheCall)
  /\ TheCall.pc = "returned"
  /\ EffectiveDt > max_points * TheCall.args.dt_s
  /\ Len(Val(TheCall.result)) = max_points + 1
  /\ Val(TheCall.result)[max_points + 1].time_s = Horizon
  /\ Val(TheCall.result)[max_points + 1].source_co2_mmol_l # TheCall.inputs.c_co2_init_mmol_l


\* ------------------------------------------------------------------------
\* Properties of calls in a sweep
\* ------------------------------------------------------------------------
\* The frame a call ends in when nothing else runs
RECURSIVE RunAlone(_)
RunAlone(fr) == IF fr.pc = "call" THEN RunAlone(Enter(fr)) ELSE IF fr.pc # "loop" THEN fr ELSE IF HasNext(fr) THEN RunAlone(Step(fr)) ELSE Exit(fr)

Finished(fr) == fr.pc \in {"returned", "raised"}

\* C14: of two calls on separate parameter sets whose steps interleave in
\* any order, no step changes the SimulationInputs or the arguments of
\* either call, and each call ends as it ends when run alone: with the same
\* return value or the same exception.
C14_CallsIndependent ==
  [][\A i \in DOMAIN frames :
       /\ frames'[i].fn = frames[i].fn
       /\ frames'[i].inputs = frames[i].inputs
       /\ frames'[i].args = frames[i].args
       /\ Finished(frames'[i]) =>
            /\ frames'[i].pc = RunAlone(CallFrame(frames[i].fn, frames[i].inputs, frames[i].args)).pc
            /\ frames'[i].result = RunAlone(CallFrame(frames[i].fn, frames[i].inputs, frames[i].args)).result]_vars

\* A sampler call has returned its rows while a search on another flow,
\* begun before, is in the middle of its loop
C14_Witness ==
  /\ Len(frames) = 2
  /\ frames[1].fn = "_simulate_source_vessel_do_timeseries"
  /\ frames[1].pc = "returned"
  /\ Len(Val(frames[1].result)) > 1
  /\ frames[2].fn = "_estimate_time_to_target_do_source_vessel"
  /\ frames[2].pc = "loop"
  /\ frames[2].loc.step >= 1
  /\ frames[2].inputs.flow_ml_min # frames[1].inputs.flow_ml_min

\* ------------------------------------------------------------------------
\* Properties of the segmented solver's loop
\* ------------------------------------------------------------------------
\* The calls of the segmented solver that have entered the loop
InLoop == {i \in DOMAIN frames : frames[i].fn = "_compute_segmented_outlet_concentrations" /\ frames[i].pc # "call"}

\* The loop variables, the ones before the last pass and the constants of call i
Vars(i) == frames[i].loc.st

Before(i) == frames[i].loc.prev

Consts(i) == frames[i].loc.k

HitBound(i) == Vars(i).iters = MaxIterations /\ ~Converged(Vars(i).diff)

\* The steps call i has left at most: the passes and the return
Remaining(i) ==
  CASE frames[i].pc = "call" -> MaxIterations + 2
    [] frames[i].pc = "loop" -> (MaxIterations - Vars(i).iters) + 1
    [] OTHER -> 0

\* At most MaxIterations passes; a pass is made only after a pass that did
\* not converge, and none after one that did; the call returns, without raising, after a pass that
\* converged or after pass MaxIterations, with the values of the last pass
LoopSteps ==
  \A i \in InLoop :
    /\ Vars(i).iters <= MaxIterations
    /\ Vars(i).iters > 1 => ~Converged(Before(i).diff)
    /\ frames[i].pc \in {"loop", "returned"}
    /\ frames[i].pc = "loop" /\ Vars(i).iters >= 1 /\ Converged(Vars(i).diff) => ~ENABLED LoopStep
    /\ frames[i].pc = "returned" =>
         /\ Vars(i).iters >= 1
         /\ Converged(Vars(i).diff) \/ Vars(i).iters = MaxIterations
         /\ Val(frames[i].result).o2 = Vars(i).c_liq_o2[Consts(i).n + 1]
         /\ Val(frames[i].result).n2 = Vars(i).c_liq_n2[Consts(i).n + 1]

\* Every step of a call uses up one of the steps it has left
StepsRunOut == \A i \in DOMAIN frames : frames'[i] # frames[i] => Remaining(i)' < Remaining(i)

\* C21: the fixed-point loop of the segmented solver makes at most 50
\* passes, leaves early exactly after a pass whose largest change of an
\* interface flow is below the tolerance, and always ends: every step
\* uses up one of at most 52 steps, and
\* after 50 passes without convergence the call returns the last iterate
\* and raises nothing
C21_LoopTerminates == []LoopSteps /\ [][StepsRunOut]_vars

\* A call that returned after 50 passes, the last one not converged
C21_Witness == \E i \in InLoop : frames[i].pc = "returned" /\ HitBound(i)

\* The fields of a species in the loop variables and in the sweep
Iface(st, sp) == IF sp = "O2" THEN st.iface_o2 ELSE st.iface_n2

Liquid(sw, sp) == IF sp = "O2" THEN sw.c_liq_o2 ELSE sw.c_liq_n2

Transfers(sw, sp) == IF sp = "O2" THEN sw.tr_o2 ELSE sw.tr_n2

Other(sp) == IF sp = "O2" THEN "N2" ELSE "O2"

\* The calls that have made a pass, the segments 1 .. n and the two species
Passed == {i \in InLoop : Vars(i).iters >= 1}

Segments(i) == 1..Consts(i).n

Gases == {"O2", "N2"}

\* The gas of species sp that enters segment s of the last pass of call i:
\* the right interface of the segment in the iterate before the pass
GasEntering(i, s, sp) == Iface(Before(i), sp)[s + 1]

\* The transfer the first-order law asks for in segment s, before the cap
Asked(i, s, sp) ==
  RDiv((LocalEquilibrium(GasEntering(i, s, sp), GasEntering(i, s, Other(sp)),
                         IF sp = "O2" THEN Consts(i).sp_o2 ELSE Consts(i).sp_n2)
        - Liquid(frames[i].loc.sweep, sp)[s])
       * (IF sp = "O2" THEN Consts(i).a_o2 ELSE Consts(i).a_n2), ES) * Consts(i).q_liq_l_min

Clipped(i, s, sp) == Asked(i, s, sp) > GasEntering(i, s, sp)

\* C22: in every pass, segment and species the transfer from gas to liquid
\* is at most the gas of the species entering the segment from its right
\* interface in the previous iterate; a transfer above it is set to it, the
\* liquid increment of the segment is that amount over the liquid flow, and
\* the flag is raised and stays raised in the result
C22_TransferCapped ==
  \A i \in Passed : \A s \in Segments(i), sp \in Gases :
    /\ Transfers(frames[i].loc.sweep, sp)[s] <= GasEntering(i, s, sp)
    /\ Clipped(i, s, sp) =>
         /\ Transfers(frames[i].loc.sweep, sp)[s] = GasEntering(i, s, sp)
         /\ Liquid(frames[i].loc.sweep, sp)[s + 1] - Liquid(frames[i].loc.sweep, sp)[s]
              = RDiv(GasEntering(i, s, sp), Consts(i).q_liq_l_min)
         /\ Liquid(Vars(i), sp) = Liquid(frames[i].loc.sweep, sp)
         /\ Vars(i).limited_hit
         /\ frames[i].pc = "returned" => Val(frames[i].result).o2_transfer_limited
    /\ ~Clipped(i, s, sp) => Transfers(frames[i].loc.sweep, sp)[s] = Asked(i, s, sp)

\* A pass that clipped the O2 transfer of a segment to a positive gas flow
C22_Witness ==
  \E i \in Passed : \E s \in Segments(i) : Clipped(i, s, "O2") /\ GasEntering(i, s, "O2") > 0

\* The inlet gas feed of a species (solver.py lines 39-40)
Inlet(k, sp) == IF sp = "O2" THEN k.n_o2_inlet_mmol_min ELSE k.n_n2_inlet_mmol_min

Gained(i, sp) ==
  IF sp = "O2" THEN (Val(frames[i].result).o2 - Consts(i).c_o2_in) * Consts(i).q_liq_l_min
  ELSE (Val(frames[i].result).n2 - Consts(i).c_n2_in) * Consts(i).q_liq_l_min

\* The rounding of the liquid profile: at most half a unit of concentration
\* in each segment
Rounding(i) == Consts(i).n * Consts(i).q_liq_l_min

\* C27: the returned result conserves mass between the phases: for each
\* species the liquid gains over the whole tube at most what the gas
\* stream feeds at the gas inlet (to the rounding of the liquid profile),
\* also when the loop stops at its bound
C27_MassConserved ==
  \A i \in InLoop : frames[i].pc = "returned" =>
    \A sp \in Gases : Gained(i, sp) <= Inlet(Consts(i), sp) + Rounding(i)

\* The same for the runs that left the loop on convergence
ConvergedConserves ==
  \A i \in InLoop : frames[i].pc = "returned" /\ ~HitBound(i) =>
    \A sp \in Gases : Gained(i, sp) <= Inlet(Consts(i), sp) + Rounding(i)

\* ------------------------------------------------------------------------
\* Properties of the profiles in the metadata
\* ------------------------------------------------------------------------
ProfileKeys == {"liq_profile_o2_mmol_l", "gas_profile_y_o2"}

\* The solver has returned to simulate
SolverReturned == pc \in {"steady", "done"}

SteadyMeta == Val(steady).metadata

InCo2Loop == {i \in DOMAIN frames : frames[i].fn = "_compute_co2_stage_segment_profiles" /\ frames[i].pc \in {"loop", "returned"}}

\* The constants of the two-species solver for the same segment count,
\* rate, inlet gas flows, liquid flow and inlet concentration, CO2 in the
\* place of O2 and a second species that does not transfer
TwoSpecies(k) ==
  [n |-> k.n,
   n_o2_inlet_mmol_min |-> k.n_co2_inlet_mmol_min,
   n_n2_inlet_mmol_min |-> k.n_other_inlet_mmol_min,
   q_liq_l_min |-> k.q_liq_l_min,
   a_o2 |-> k.a_co2,
   a_n2 |-> 0,
   sp_o2 |-> k.sp_co2,
   sp_n2 |-> constant_solubility_model("N2", 0) * 1013,
   c_o2_in |-> k.c_co2_in,
   c_n2_in |-> 0]

\* Loop variables of the CO2 function as loop variables of the two-species
\* solver
AsTwoSpecies(k, st) ==
  [iface_o2 |-> st.iface_co2,
   iface_n2 |-> st.iface_other,
   limited_hit |-> st.limited_hit,
   c_liq_o2 |-> st.c_liq,
   c_liq_n2 |-> Repeat(0, k.n + 1),
   iters |-> st.iters,
   diff |-> st.diff]

\* C25: the CO2 function is step for step the two-species solver run with
\* a second species that does not transfer: the loop variables agree before
\* the first pass and after every pass, both leave the loop after the same
\* number of passes, and the liquid profile, the gas interface profile and
\* the transfer-limited flag of the results are the same
C25_SameAlgorithm ==
  \A i \in InCo2Loop :
    /\ Vars(i).iters = 0 => AsTwoSpecies(Consts(i), Vars(i)) = SegmentedInit(TwoSpecies(Consts(i)))
    /\ Vars(i).iters >= 1 =>
         AsTwoSpecies(Consts(i), Vars(i))
           = SegmentedIterate(TwoSpecies(Consts(i)), AsTwoSpecies(Consts(i), Before(i)))
    /\ frames[i].pc = "returned" =>
         /\ AsTwoSpecies(Consts(i), Vars(i))
              = SegmentedLoop(TwoSpecies(Consts(i)), SegmentedInit(TwoSpecies(Consts(i))))
         /\ Val(frames[i].result).iters = SegmentedRun(TwoSpecies(Consts(i))).iters
         /\ Val(frames[i].result).liq_profile_co2_mmol_l
              = SegmentedRun(TwoSpecies(Consts(i))).extra.liq_profile_o2_mmol_l
         /\ Val(frames[i].result).co2_transfer_limited
              = SegmentedRun(TwoSpecies(Consts(i))).o2_transfer_limited

\* A call that returned after several passes with a clipped transfer, its
\* gas a mixture
C25_Witness ==
  \E i \in InCo2Loop :
    /\ frames[i].pc = "returned"
    /\ Vars(i).iters > 2
    /\ Vars(i).limited_hit
    /\ Consts(i).n_other_inlet_mmol_min > 0
    /\ Consts(i).n_co2_inlet_mmol_min > 0

\* ------------------------------------------------------------------------
\* Properties of the pH sub-stage's gas-supply cap
\* ------------------------------------------------------------------------
\* The two-stage outlet has been computed with the pH stage enabled
PhStageRan == pc = "done" /\ co2 # None /\ Val(co2).ok /\ inputs.enable_co2_ph_stage

\* The dissolved CO2 entering the pH sub-stage: the outlet of the DO stage
\* in the reverse order, the inlet of the call in the normal order
PhStageInlet == IF inputs.reverse_ph_do_flow THEN Val(co2).co2_after_do_part_mmol_l ELSE c_in[1]

\* The CO2 the pH-stage gas stream brings, in 1e-7 mmol/min
PhStageSupply ==
  compute_gas_o2_supply_rate_mmol_min(inputs.ph_gas_flow_ml_min, y_co2_stage1(inputs),
                                      inputs.p_total_kpa, inputs.temperature_c)

\* The closed-form outlet of the pH sub-stage for its inlet
PhStageClosedForm ==
  compute_single_pass_outlet_concentration(PhStageInlet, cstar_stage1(inputs),
                                           Co2EffectiveKla(inputs).val,
                                           StageTau(inputs, inputs.ph_tube_length_cm))

\* C26: with the pH stage enabled, in either stage order, the gain of
\* dissolved CO2 across the pH sub-stage times the liquid flow does not
\* exceed the CO2 supply rate of the pH-stage gas (to the resolution of the
\* concentration: the gain is at most supply / flow rounded), and where the
\* closed form asks for more than the supply the outlet of the sub-stage is
\* inlet + supply / flow
C26_PhStageCapped ==
  PhStageRan =>
    /\ Val(co2).co2_after_ph_part_mmol_l - PhStageInlet <= RDiv(PhStageSupply, inputs.flow_ml_min)
    /\ 2 * ((Val(co2).co2_after_ph_part_mmol_l - PhStageInlet) * inputs.flow_ml_min - PhStageSupply)
         <= inputs.flow_ml_min
    /\ (PhStageClosedForm - PhStageInlet) * inputs.flow_ml_min > PhStageSupply
         => Val(co2).co2_after_ph_part_mmol_l = PhStageInlet + RDiv(PhStageSupply, inputs.flow_ml_min)
    /\ (PhStageClosedForm - PhStageInlet) * inputs.flow_ml_min <= PhStageSupply
         => Val(co2).co2_after_ph_part_mmol_l = PhStageClosedForm

\* The reverse order, the DO stage having stripped CO2 before the pH
\* sub-stage, whose closed form asks for more CO2 than the gas brings
C26_Witness ==
  /\ PhStageRan
  /\ inputs.reverse_ph_do_flow
  /\ PhStageInlet < c_in[1]
  /\ PhStageSupply > 0
  /\ (PhStageClosedForm - PhStageInlet) * inputs.flow_ml_min > PhStageSupply
  /\ Val(co2).co2_after_ph_part_mmol_l > PhStageInlet

\* ------------------------------------------------------------------------
\* Properties of the recirculating vessel's Euler step
\* ------------------------------------------------------------------------
\* The calls of the two recirculation functions that have entered their loop
Recirculating ==
  {i \in DOMAIN frames :
     /\ frames[i].fn \in {"_estimate_time_to_target_do_source_vessel", "_simulate_source_vessel_do_timeseries"}
     /\ frames[i].pc \in {"loop", "returned"}
     /\ frames[i].loc # <<>>}

\* The O2 equilibrium concentration of a call's inputs
EquilibriumO2(i) == compute_equilibrium_concentrations(frames[i].inputs)[1]

\* C28: after every Euler step of the search and of the sampler the vessel
\* O2 concentration lies between its initial value and the O2 equilibrium
\* concentration, and is not negative
C28_WithinBounds ==
  \A i \in Recirculating :
    /\ frames[i].loc.c_o2 >= Min(frames[i].inputs.c_o2_init_mmol_l, EquilibriumO2(i))
    /\ frames[i].loc.c_o2 <= Max(frames[i].inputs.c_o2_init_mmol_l, EquilibriumO2(i))
    /\ frames[i].loc.c_o2 >= 0

\* ------------------------------------------------------------------------
\* Properties of the two recirculation functions run side by side
\* ------------------------------------------------------------------------
\* The search and the sampler of a pair have both entered their loop, with
\* the same integration step, and have made the same number of passes
SameStep ==
  /\ Len(frames) = 2
  /\ Recirculating = {1, 2}
  /\ frames[1].fn = "_estimate_time_to_target_do_source_vessel"
  /\ frames[2].fn = "_simulate_source_vessel_do_timeseries"
  /\ frames[1].inputs = frames[2].inputs
  /\ max_points * frames[1].loc.dt_s = frames[2].loc.eff_dt_s
  /\ frames[1].loc.step = frames[2].loc.step

\* C30: run with the same inputs and the same integration step, the search
\* (append the outlet, then remove and use the front of the list) and the
\* sampler (read the front of the deque, then append with eviction) hold the
\* same vessel O2 and N2 concentrations and the same delay lines after the
\* same number of passes
C30_SameRecurrence ==
  SameStep =>
    /\ frames[1].loc.c_o2 = frames[2].loc.c_o2
    /\ frames[1].loc.c_n2 = frames[2].loc.c_n2
    /\ frames[1].loc.delay_steps = frames[2].loc.delay_steps
    /\ frames[1].loc.out_hist_o2 = frames[2].loc.out_hist_o2
    /\ frames[1].loc.out_hist_n2 = frames[2].loc.out_hist_n2

\* Both functions after the same passes, more of them than the delay line is
\* long, the line holding more than one outlet and the vessel having left
\* its initial concentration
C30_Witness ==
  /\ SameStep
  /\ frames[1].loc.delay_steps >= 1
  /\ frames[1].loc.step > frames[1].loc.delay_steps + 2
  /\ frames[2].loc.c_o2 # frames[2].inputs.c_o2_init_mmol_l
  /\ frames[1].loc.c_n2 # frames[1].inputs.c_n2_init_mmol_l

\* ------------------------------------------------------------------------
\* Properties of the calls on accepted inputs
\* ------------------------------------------------------------------------
\* C29: a call of simulate, of compute_single_pass_steady_outlet or of a
\* recirculation function (the pH sampler calls
\* _compute_two_stage_co2_outlet) on inputs validate_inputs accepts does not
\* raise
C29_AcceptedRunsClean ==
  \A i \in DOMAIN frames :
    validate_inputs(frames[i].inputs) = <<>> => frames[i].pc # "raised"


====
